---- MODULE Spec2Model ----
(***************************************************************************)
(* Model of gitlab-cmds (glcmds): the paginated traversal engine of        *)
(* cmd/internal/gitlab_util (FindExactGroup, ForEachProjectInGroup,        *)
(* GetAllProjects, ForEachApprovalRuleInProject, ForEachUser), the         *)
(* "project delete" command built on it, and the three-pass option         *)
(* resolution of cmd/internal/commands/global_command.go.                  *)
(*                                                                         *)
(* Strings that the code inspects (paths, search strings, regular          *)
(* expressions) are sequences of one-character strings, so that equality,  *)
(* substring search and anchored matching are computed, not assumed.       *)
(***************************************************************************)
EXTENDS Integers, Sequences, FiniteSets, TLC

\* ------------------------------------------------------------------ bounds
\* Largest number of projects the group "g1" holds when a call starts.
MaxProjects == 3
\* Page size of the group, project, approval-rule and user listings.
PerPage == 2
\* Largest --project-count of a create-random call.
MaxCount == 2

\* ------------------------------------------------------------- strings
s_g1 == <<"g", "1">>
s_g1x == <<"g", "1", "x">>
s_g1y == <<"g", "1", "y">>
s_dup == <<"d", "u", "p">>
s_g == <<"g">>
s_nope == <<"n", "o", "p", "e">>

\* Range of a sequence.
Range(s) == {s[i] : i \in 1..Len(s)}

\* Sequences without repetition, of length at most n, over the set S.
RECURSIVE Arrangements(_, _)
Arrangements(S, n) ==
    IF n = 0 THEN {<<>>}
    ELSE LET prev == Arrangements(S, n - 1)
         IN prev \cup UNION {{Append(s, x) : x \in S \ Range(s)} : s \in prev}

\* --------------------------------------------------------------- regexps
\* A filter expression as regexp.Compile sees it: either it does not
\* compile (valid = FALSE) or it is a literal with optional ^ and $ anchors.
\*   ""   "a$"   "^a"   "b"   "("
re_empty == [valid |-> TRUE, anchS |-> FALSE, lit |-> <<>>, anchE |-> FALSE]
re_a_end == [valid |-> TRUE, anchS |-> FALSE, lit |-> <<"a">>, anchE |-> TRUE]
re_start_a == [valid |-> TRUE, anchS |-> TRUE, lit |-> <<"a">>, anchE |-> FALSE]
re_b == [valid |-> TRUE, anchS |-> FALSE, lit |-> <<"b">>, anchE |-> FALSE]
re_bad == [valid |-> FALSE, anchS |-> FALSE, lit |-> <<"(">>, anchE |-> FALSE]
Exprs == {re_empty, re_a_end, re_start_a, re_b, re_bad}

\* r.MatchString(s): the literal occurs in s at a position the anchors allow.
\* The empty expression matches every string.
MatchString(r, s) ==
    \E i \in 1..(Len(s) + 1) :
        /\ i + Len(r.lit) - 1 <= Len(s)
        /\ SubSeq(s, i, i + Len(r.lit) - 1) = r.lit
        /\ r.anchS => i = 1
        /\ r.anchE => i + Len(r.lit) - 1 = Len(s)

\* Substring search as the backing search API does it.
Contains(s, sub) ==
    MatchString([valid |-> TRUE, anchS |-> FALSE, lit |-> sub, anchE |-> FALSE], s)

\* ------------------------------------------------------- backing service
\* The groups the server knows.  Groups 3 and 4 are distinct groups that
\* report the same full path.
Group(id) ==
    [ID |-> id,
     FullPath |-> CASE id = 1 -> s_g1
                    [] id = 2 -> s_g1x
                    [] id = 3 -> s_dup
                    [] id = 4 -> s_dup
                    [] OTHER -> s_g1y]
GroupIDs == 1..5
NoGroup == [ID |-> 0, FullPath |-> <<>>]

\* The orders in which the server may list its groups.
GroupOrders == {<<1, 2, 3, 4, 5>>, <<5, 2, 1, 4, 3>>}

\* Requested root names.
GroupNames == {s_g1, s_dup, s_g, s_nope}

\* Projects: the bare name, the group that owns it and whether it sits in
\* a subgroup of that group (then it is listed only with IncludeSubGroups).
ProjName(p) ==
    CASE p = 1 -> <<"a">>
      [] p = 2 -> <<"b">>
      [] p = 3 -> <<"a", "x">>
      [] p = 4 -> <<"a">>
      [] p = 5 -> <<"a">>
      [] p = 6 -> <<"a">>
      [] p = 7 -> <<"b">>
      [] OTHER -> <<"a">>
ProjGroup(p) ==
    CASE p \in 1..4 -> 1
      [] p = 5 -> 2
      [] p = 6 -> 3
      [] p = 7 -> 4
      [] OTHER -> 5
InSubGroup(p) == p = 4
PathWithNamespace(p) ==
    Group(ProjGroup(p)).FullPath \o
        (IF InSubGroup(p) THEN <<"/", "s">> ELSE <<>>) \o <<"/">> \o ProjName(p)

\* Approval rules of the project under inspection and users of the server.
RuleIDs == <<1, 2, 3>>

\* The approval rule rid of project p as the service returns it.
Rule(p, rid) ==
    [ID |-> rid,
     Name |-> <<"r", rid>>,
     ApprovalsRequired |-> rid - 1,
     Users |-> <<[ID |-> 40 + rid]>>,
     Groups |-> IF rid = 1 THEN <<>> ELSE <<[ID |-> 10 + rid]>>,
     ProtectedBranches |-> <<[ID |-> 20 + rid], [ID |-> 30 + p]>>,
     AppliesToAllProtectedBranches |-> (rid = 2)]

\* The lists of approver IDs read from the approvers file.
ApproverIDs == {<<>>, <<41, 50>>}
UserIDs == <<1, 2, 3>>
UserName(u) ==
    CASE u = 1 -> <<"a", "n", "n">>
      [] u = 2 -> <<"b", "o", "b">>
      [] OTHER -> <<"a", "n", "n", "a">>
UserSearches == {<<>>, <<"a", "n", "n">>}

\* One page of an offset-paginated listing of the collection as it is at
\* the time of the request, and the NextPage of the response (0: no more).
PageItems(coll, page, per) ==
    SubSeq(coll, (page - 1) * per + 1,
           IF page * per < Len(coll) THEN page * per ELSE Len(coll))
PageNext(coll, page, per) == IF page * per < Len(coll) THEN page + 1 ELSE 0

\* Remove every occurrence of x from the sequence s.
Remove(s, x) == SelectSeq(s, LAMBDA y : y # x)


\* ------------------------------------------------------------------ state
VARIABLES
    groupOrder, \* order in which the server lists its groups
    server,     \* group ID -> the projects the group holds now, in order
    server0,    \* server as it was when the call in progress started
    call,       \* arguments of the call in progress
    pc,         \* position of the call in progress
    page,       \* opts.Page of the listing in progress
    items,      \* the page of items being visited (gs, ps, rules, users)
    idx,        \* index in items of the next item to visit
    nextPage,   \* resp.NextPage of the page being visited
    g,          \* the group FindExactGroup resolved
    result,     \* GetAllProjects: the projects collected so far
    didx,       \* DeleteProjects: index in result of the next project
    trace,      \* calls to the backing service and to the visitor, in order
    ret,        \* "none" while running, then "nil" or the error
    collected,  \* outcome of the previous call of the comparison harness
    cmdline,    \* os.Args[1:], a sequence of flag and name tokens
    optFiles,   \* file name -> the elements of that options file
    allOpts,    \* cmd.allOpts: option field -> value
    globalOpts, \* the GlobalOptions returned by PeakAtGlobalOptions
    subcmds,    \* cmd.subcmds of the global command: name -> Runner
    rest,       \* the arguments the next command will parse
    rpc,        \* position of GlobalCommand.Run and of the commands it runs
    rerr,       \* the error Run returned or the process exited with
    steps,      \* log of the steps of the run, in order
    out,        \* what the usage functions printed, in order
    authXml,    \* the credentials file: element -> text, or not well-formed
    authInfo,   \* what authinfo.Load returned for it
    usersXml,   \* the users file: missing, not well-formed, or its users
    glUsers     \* the users the users list command looked up

travVars == <<groupOrder, server, server0, call, pc, page, items, idx,
              nextPage, g, result, didx, trace, ret, collected>>
optVars == <<cmdline, optFiles, allOpts, globalOpts, subcmds, rest, rpc, rerr,
             steps, out>>
fileVars == <<authXml, authInfo, usersXml, glUsers>>

NoCall == [fn |-> "none", group |-> <<>>, expr |-> re_empty,
           recursive |-> FALSE, dryRun |-> FALSE, user |-> <<>>,
           count |-> 0, userIDs |-> <<>>]
NoCollected == [valid |-> FALSE, group |-> <<>>, recursive |-> FALSE,
                result |-> <<>>]

\* A call to the backing service or to the visitor.
\*   ListGroups, ListGroupProjects, GetProjectApprovalRules, ListUsers:
\*       arg = page requested, res = NextPage of the response, -1 on error
\*   visit: arg = item, res = 1 (true, nil), 0 (false, nil), -1 (_, err)
\*   DeleteProject: arg = project, res = 1 deleted, -1 failed;
\*   DryRunDelete: arg = project, res = 0 (no request is sent)
Ev(op, arg, res) == [op |-> op, arg |-> arg, res |-> res]

IsErr(r) == r \notin {"none", "nil"}
FetchOps == {"ListGroupProjects", "GetProjectApprovalRules", "ListUsers"}

\* Subsequence of the events of the trace that satisfy Test, as their args.
ArgsOf(tr, ops) ==
    LET sel == SelectSeq(tr, LAMBDA e : e.op \in ops)
    IN [i \in 1..Len(sel) |-> sel[i].arg]

\* ------------------------------------------------ backing service requests
\* s.ListGroups(&opts) with opts.Search = name: the groups whose full path
\* contains the search string, in the server's order.
SearchGroups(name) ==
    LET all == [i \in 1..Len(groupOrder) |-> Group(groupOrder[i])]
    IN SelectSeq(all, LAMBDA x : Contains(x.FullPath, name))

\* s.ListGroupProjects(gid, &opts): the projects of the group at the time
\* of the request; projects of subgroups only with IncludeSubGroups.
GroupProjects(srv, gid, recursive) ==
    SelectSeq(srv[gid], LAMBDA p : recursive \/ ~InSubGroup(p))

\* s.ListUsers(&opts): opts.Search is set only for a non-empty string.
SearchUsers(user) ==
    SelectSeq(UserIDs, LAMBDA u : user = <<>> \/ Contains(UserName(u), user))

\* ------------------------------------------------------------------- Init
TravInit ==
    /\ groupOrder \in GroupOrders
    /\ \E arr \in Arrangements(1..4, MaxProjects) :
           server = [gid \in GroupIDs |->
                       CASE gid = 1 -> arr
                         [] gid = 2 -> <<5>>
                         [] gid = 3 -> <<6>>
                         [] gid = 4 -> <<7>>
                         [] OTHER -> <<8>>]
    /\ server0 = server
    /\ call = NoCall
    /\ pc = "idle"
    /\ page = 0
    /\ items = <<>>
    /\ idx = 0
    /\ nextPage = 0
    /\ g = NoGroup
    /\ result = <<>>
    /\ didx = 0
    /\ trace = <<>>
    /\ ret = "none"
    /\ collected = NoCollected

\* The locals of a call as they are when the call starts.
Enter(c, first) ==
    /\ call' = c
    /\ pc' = first
    /\ page' = 1
    /\ items' = <<>>
    /\ idx' = 0
    /\ nextPage' = 0
    /\ g' = NoGroup
    /\ result' = <<>>
    /\ didx' = 0
    /\ trace' = <<>>
    /\ ret' = "none"
    /\ server0' = server
    /\ UNCHANGED <<groupOrder, server>>

\* ---------------------------------------------------------------- callers
\* A caller invokes ForEachProjectInGroup with a visitor of its own.
CallForEachProjectInGroup ==
    /\ pc = "idle"
    /\ \E grp \in GroupNames, e \in Exprs, rec \in BOOLEAN :
           Enter([fn |-> "ForEachProjectInGroup", group |-> grp, expr |-> e,
                  recursive |-> rec, dryRun |-> FALSE, user |-> <<>>,
                  count |-> 0, userIDs |-> <<>>],
                 "FindExactGroup")
    /\ UNCHANGED collected
    /\ UNCHANGED <<optVars, fileVars>>

CallGetAllProjects ==
    /\ pc = "idle"
    /\ \E grp \in GroupNames, e \in Exprs, rec \in BOOLEAN :
           Enter([fn |-> "GetAllProjects", group |-> grp, expr |-> e,
                  recursive |-> rec, dryRun |-> FALSE, user |-> <<>>,
                  count |-> 0, userIDs |-> <<>>],
                 "FindExactGroup")
    /\ UNCHANGED collected
    /\ UNCHANGED <<optVars, fileVars>>

\* ProjectDeleteCommand.Run calls DeleteProjects with its options.
CallDeleteProjects ==
    /\ pc = "idle"
    /\ \E grp \in GroupNames, e \in Exprs, rec \in BOOLEAN, dry \in BOOLEAN :
           Enter([fn |-> "DeleteProjects", group |-> grp, expr |-> e,
                  recursive |-> rec, dryRun |-> dry, user |-> <<>>,
                  count |-> 0, userIDs |-> <<>>],
                 "FindExactGroup")
    /\ UNCHANGED collected
    /\ UNCHANGED <<optVars, fileVars>>

\* ProjectsCreateRandomCommand.Run calls CreateRandomProjects with its options.
CallCreateRandomProjects ==
    /\ pc = "idle"
    /\ \E grp \in GroupNames, n \in 0..MaxCount, dry \in BOOLEAN :
           Enter([NoCall EXCEPT !.fn = "CreateRandomProjects", !.group = grp,
                                !.count = n, !.dryRun = dry],
                 "FindExactGroup")
    /\ UNCHANGED collected
    /\ UNCHANGED <<optVars, fileVars>>

\* ProjectsApprovalRulesUpdateCommand.Run, once the approvers are read,
\* calls ForEachProjectInGroup with the visitor that updates the rules.
CallApprovalRulesUpdate ==
    /\ pc = "idle"
    /\ \E grp \in GroupNames, e \in Exprs, rec \in BOOLEAN, dry \in BOOLEAN,
          ids \in ApproverIDs :
           Enter([fn |-> "ApprovalRulesUpdate", group |-> grp, expr |-> e,
                  recursive |-> rec, dryRun |-> dry, user |-> <<>>,
                  count |-> 0, userIDs |-> ids],
                 "FindExactGroup")
    /\ UNCHANGED collected
    /\ UNCHANGED <<optVars, fileVars>>

\* ProjectsApprovalRulesListCommand.Run calls ForEachProjectInGroup with
\* the visitor that prints the rules of the project.
CallApprovalRulesList ==
    /\ pc = "idle"
    /\ \E grp \in GroupNames, e \in Exprs, rec \in BOOLEAN :
           Enter([fn |-> "ApprovalRulesList", group |-> grp, expr |-> e,
                  recursive |-> rec, dryRun |-> FALSE, user |-> <<>>,
                  count |-> 0, userIDs |-> <<>>],
                 "FindExactGroup")
    /\ UNCHANGED collected
    /\ UNCHANGED <<optVars, fileVars>>

CallForEachApprovalRuleInProject ==
    /\ pc = "idle"
    /\ Enter([NoCall EXCEPT !.fn = "ForEachApprovalRuleInProject"],
             "GetProjectApprovalRules")
    /\ UNCHANGED collected
    /\ UNCHANGED <<optVars, fileVars>>

CallForEachUser ==
    /\ pc = "idle"
    /\ \E u \in UserSearches :
           Enter([NoCall EXCEPT !.fn = "ForEachUser", !.user = u], "ListUsers")
    /\ UNCHANGED collected
    /\ UNCHANGED <<optVars, fileVars>>


\* A caller that has collected the projects of a group with GetAllProjects
\* and the empty expression walks the same group again with
\* ForEachProjectInGroup and a filter expression.
CallForEachProjectInGroupAfterGetAll ==
    /\ pc = "done"
    /\ call.fn = "GetAllProjects"
    /\ call.expr = re_empty
    /\ ret = "nil"
    /\ ~collected.valid
    /\ collected' = [valid |-> TRUE, group |-> call.group,
                     recursive |-> call.recursive, result |-> result]
    /\ \E e \in Exprs :
           Enter([fn |-> "ForEachProjectInGroup", group |-> call.group,
                  expr |-> e, recursive |-> call.recursive, dryRun |-> FALSE,
                  user |-> <<>>, count |-> 0, userIDs |-> <<>>],
                 "FindExactGroup")
    /\ UNCHANGED <<optVars, fileVars>>

\* ------------------------------------------------------- FindExactGroup
\* Variant: any group the search returned is accepted.
ExactMatch_Substring(x, name) == Contains(x.FullPath, name)

\* The test of line 46: the group's full path equals the requested name.
ExactMatch(x, name) == x.FullPath = name

\* Variant: the loop does not return at the first match and keeps the last.
FirstExact_Last(gs, name) ==
    IF \E i \in 1..Len(gs) : ExactMatch(gs[i], name)
    THEN gs[CHOOSE i \in 1..Len(gs) :
                /\ ExactMatch(gs[i], name)
                /\ \A j \in (i + 1)..Len(gs) : ~ExactMatch(gs[j], name)]
    ELSE NoGroup

\* The loop of lines 45-49 over one page: the first group of the page that
\* matches exactly, NoGroup when the page has none.
FirstExact(gs, name) ==
    IF \E i \in 1..Len(gs) : ExactMatch(gs[i], name)
    THEN gs[CHOOSE i \in 1..Len(gs) :
                /\ ExactMatch(gs[i], name)
                /\ \A j \in 1..(i - 1) : ~ExactMatch(gs[j], name)]
    ELSE NoGroup

\* What the callers of ForEachProjectInGroup do with its return value v:
\* GetAllProjects returns (nil, err) or (result, nil); DeleteProjects
\* returns the error or goes on to delete the collected projects.
ForEachReturn(v) ==
    IF call.fn = "DeleteProjects" /\ ~IsErr(v)
    THEN /\ pc' = "DeleteProject"
         /\ didx' = 1
         /\ ret' = "none"
         /\ result' = result
    ELSE /\ pc' = "done"
         /\ didx' = didx
         /\ ret' = v
         /\ result' = IF IsErr(v) THEN <<>> ELSE result

\* One iteration of the page loop of FindExactGroup.
FindExactGroup ==
    /\ pc = "FindExactGroup"
    /\ \/ \* s.ListGroups fails
          /\ trace' = Append(trace, Ev("ListGroups", page, -1))
          /\ ForEachReturn("FindExactGroup: ListGroups")
          /\ UNCHANGED <<page, items, nextPage, g>>
       \/ LET found == SearchGroups(call.group)
              gs == PageItems(found, page, PerPage)
              np == PageNext(found, page, PerPage)
              hit == FirstExact(gs, call.group)
          IN /\ trace' = Append(trace, Ev("ListGroups", page, np))
             /\ items' = gs
             /\ nextPage' = np
             /\ IF hit # NoGroup
                THEN /\ g' = hit
                     /\ pc' = IF call.fn = "CreateRandomProjects"
                              THEN "CreateProject" ELSE "Compile"
                     /\ UNCHANGED <<page, ret, result, didx>>
                ELSE IF np = 0
                THEN /\ ForEachReturn("FindExactGroup: could not find exact match")
                     /\ UNCHANGED <<page, g>>
                ELSE /\ page' = np
                     /\ UNCHANGED <<pc, g, ret, result, didx>>
    /\ UNCHANGED <<groupOrder, server, server0, call, idx, collected>>
    /\ UNCHANGED <<optVars, fileVars>>

\* ------------------------------------------------ ForEachProjectInGroup
\* Variant: the error of regexp.Compile is dropped and the listing starts.
Compile_IgnoreError ==
    /\ pc = "Compile"
    /\ pc' = "ListGroupProjects"
    /\ page' = 1
    /\ UNCHANGED <<ret, result, didx>>
    /\ UNCHANGED <<groupOrder, server, server0, call, items, idx, nextPage, g,
                   trace, collected>>
    /\ UNCHANGED <<optVars, fileVars>>

\* regexp.Compile(expr) and the set up of the listing options.
Compile ==
    /\ pc = "Compile"
    /\ IF call.expr.valid
       THEN /\ pc' = "ListGroupProjects"
            /\ page' = 1
            /\ UNCHANGED <<ret, result, didx>>
       ELSE /\ ForEachReturn("ForEachProjectInGroup: regexp")
            /\ UNCHANGED page
    /\ UNCHANGED <<groupOrder, server, server0, call, items, idx, nextPage, g,
                   trace, collected>>
    /\ UNCHANGED <<optVars, fileVars>>

\* Variant: a failed request is taken for an empty last page.
ListGroupProjects_SwallowError ==
    /\ pc = "ListGroupProjects"
    /\ \/ /\ trace' = Append(trace, Ev("ListGroupProjects", page, -1))
          /\ ForEachReturn("nil")
          /\ UNCHANGED <<items, idx, nextPage>>
       \/ LET coll == GroupProjects(server, g.ID, call.recursive)
          IN /\ items' = PageItems(coll, page, PerPage)
             /\ nextPage' = PageNext(coll, page, PerPage)
             /\ idx' = 1
             /\ trace' = Append(trace, Ev("ListGroupProjects", page,
                                          PageNext(coll, page, PerPage)))
             /\ pc' = "Visit"
             /\ UNCHANGED <<ret, result, didx>>
    /\ UNCHANGED <<groupOrder, server, server0, call, page, g, collected>>
    /\ UNCHANGED <<optVars, fileVars>>

\* s.ListGroupProjects(g.ID, &opts): one page, or an error.
ListGroupProjects ==
    /\ pc = "ListGroupProjects"
    /\ \/ /\ trace' = Append(trace, Ev("ListGroupProjects", page, -1))
          /\ ForEachReturn("ForEachProjectInGroup: ListGroupProjects")
          /\ UNCHANGED <<items, idx, nextPage>>
       \/ LET coll == GroupProjects(server, g.ID, call.recursive)
          IN /\ items' = PageItems(coll, page, PerPage)
             /\ nextPage' = PageNext(coll, page, PerPage)
             /\ idx' = 1
             /\ trace' = Append(trace, Ev("ListGroupProjects", page,
                                          PageNext(coll, page, PerPage)))
             /\ pc' = "Visit"
             /\ UNCHANGED <<ret, result, didx>>
    /\ UNCHANGED <<groupOrder, server, server0, call, page, g, collected>>
    /\ UNCHANGED <<optVars, fileVars>>

\* Variant: the filter is applied to the bare name.
Selected_ByName(r, p) == MatchString(r, ProjName(p))

\* The filter of line 117: the full path of the project, not its name.
Selected(r, p) == MatchString(r, PathWithNamespace(p))

\* Variant: the visitor deletes the project as it is visited.
GetAllProjects_f_Streaming(p) ==
    /\ result' = Append(result, p)
    /\ trace' = trace \o <<Ev("visit", p, 1), Ev("DeleteProject", p, 1)>>
    /\ server' = [server EXCEPT ![ProjGroup(p)] = Remove(@, p)]

\* The visitor of GetAllProjects: append the project and go on.
GetAllProjects_f(p) ==
    /\ result' = Append(result, p)
    /\ trace' = Append(trace, Ev("visit", p, 1))
    /\ server' = server

\* Variant: the loop does not look at more.
AfterVisit_IgnoreMore(ans) ==
    CASE ans = -1 -> /\ ForEachReturn("visit")
                     /\ idx' = idx
      [] OTHER -> /\ idx' = idx + 1
                  /\ UNCHANGED <<pc, ret, result, didx>>

\* What the loop does with the (more, err) its visitor returned, coded as
\* 1 (true, nil), 0 (false, nil), -1 (_, err).
AfterVisit(ans) ==
    CASE ans = -1 -> /\ ForEachReturn("visit")
                     /\ idx' = idx
      [] ans = 0 -> /\ ForEachReturn("nil")
                    /\ idx' = idx
      [] OTHER -> /\ idx' = idx + 1
                  /\ UNCHANGED <<pc, ret, result, didx>>

\* ------------------------------------------------- approval-rules update
\* The IDs of a list of groups, branches or users.
IDsOf(xs) == [i \in 1..Len(xs) |-> xs[i].ID]

\* Variant: the group IDs are not carried over.
UpdateApprovalRule_DropsGroups(rule, userIDs) ==
    [Name |-> rule.Name,
     ApprovalsRequired |-> rule.ApprovalsRequired,
     UserIDs |-> userIDs,
     GroupIDs |-> <<>>,
     ProtectedBranchIDs |-> IDsOf(rule.ProtectedBranches),
     AppliesToAllProtectedBranches |-> rule.AppliesToAllProtectedBranches]

\* gitlab_util.UpdateApprovalRule: the options of the update request it
\* sends for the rule it was given.
UpdateApprovalRule(rule, userIDs) ==
    [Name |-> rule.Name,
     ApprovalsRequired |-> rule.ApprovalsRequired,
     UserIDs |-> userIDs,
     GroupIDs |-> IDsOf(rule.Groups),
     ProtectedBranchIDs |-> IDsOf(rule.ProtectedBranches),
     AppliesToAllProtectedBranches |-> rule.AppliesToAllProtectedBranches]

\* Variant: the request is sent whatever dryRun is.
updateApprovalRule_IgnoreDryRun(p, rid, userIDs, dryRun, ok) ==
    [ev |-> <<Ev("UpdateProjectApprovalRule",
                 [project |-> p, rule |-> rid,
                  opts |-> UpdateApprovalRule(Rule(p, rid), userIDs)],
                 IF ok THEN 1 ELSE -1)>>,
     err |-> IF ok THEN "nil" ELSE "UpdateProjectApprovalRule"]

\* updateApprovalRule: the calls it makes and the error it returns; ok
\* tells whether the service accepts the request.
updateApprovalRule(p, rid, userIDs, dryRun, ok) ==
    IF dryRun
    THEN [ev |-> <<Ev("DryRunUpdate", [project |-> p, rule |-> rid], 0)>>,
          err |-> "nil"]
    ELSE [ev |-> <<Ev("UpdateProjectApprovalRule",
                      [project |-> p, rule |-> rid,
                       opts |-> UpdateApprovalRule(Rule(p, rid), userIDs)],
                      IF ok THEN 1 ELSE -1)>>,
          err |-> IF ok THEN "nil" ELSE "UpdateProjectApprovalRule"]

\* The request of the walk over the rules of one project that fails, if any.
NoFail == [kind |-> "none", at |-> 0]
RuleFails ==
    {NoFail}
    \cup {[kind |-> "fetch", at |-> k] : k \in 1..Len(RuleIDs)}
    \cup {[kind |-> "update", at |-> RuleIDs[i]] : i \in 1..Len(RuleIDs)}

\* The loop of ForEachApprovalRuleInProject over the rules its of a page,
\* from index i, with the visitor of the update command, which returns
\* (true, err) with the err of updateApprovalRule.
RECURSIVE UpdateRulesOfPage(_, _, _, _, _, _)
UpdateRulesOfPage(p, its, i, userIDs, dryRun, fail) ==
    IF i > Len(its) THEN [ev |-> <<>>, err |-> "nil"]
    ELSE LET u == updateApprovalRule(p, its[i], userIDs, dryRun,
                                     ~(fail.kind = "update" /\ fail.at = its[i]))
         IN IF u.err # "nil" THEN u
            ELSE LET r == UpdateRulesOfPage(p, its, i + 1, userIDs, dryRun, fail)
                 IN [ev |-> u.ev \o r.ev, err |-> r.err]

\* ForEachApprovalRuleInProject for project p from page pg on, called by
\* the visitor of the update command.
RECURSIVE UpdateRulesOfProject(_, _, _, _, _)
UpdateRulesOfProject(p, pg, userIDs, dryRun, fail) ==
    IF fail.kind = "fetch" /\ fail.at = pg
    THEN [ev |-> <<Ev("GetProjectApprovalRules", pg, -1)>>,
          err |-> "ForEachApprovalRuleInProject: GetProjectApprovalRules"]
    ELSE LET its == PageItems(RuleIDs, pg, PerPage)
             np == PageNext(RuleIDs, pg, PerPage)
             fetch == <<Ev("GetProjectApprovalRules", pg, np)>>
             v == UpdateRulesOfPage(p, its, 1, userIDs, dryRun, fail)
         IN IF v.err # "nil" THEN [ev |-> fetch \o v.ev, err |-> v.err]
            ELSE IF np = 0 THEN [ev |-> fetch \o v.ev, err |-> "nil"]
            ELSE LET r == UpdateRulesOfProject(p, np, userIDs, dryRun, fail)
                 IN [ev |-> fetch \o v.ev \o r.ev, err |-> r.err]

\* ------------------------------------------------- approval-rules list
\* ForEachApprovalRuleInProject for project p from page pg on, called by
\* the visitor of the list command with a visitor that prints the rule and
\* returns (true, nil).
RECURSIVE ListRulesOfProject(_, _, _)
ListRulesOfProject(p, pg, fail) ==
    IF fail.kind = "fetch" /\ fail.at = pg
    THEN [ev |-> <<Ev("GetProjectApprovalRules", pg, -1)>>,
          err |-> "ForEachApprovalRuleInProject: GetProjectApprovalRules"]
    ELSE LET its == PageItems(RuleIDs, pg, PerPage)
             np == PageNext(RuleIDs, pg, PerPage)
             fetch == <<Ev("GetProjectApprovalRules", pg, np)>>
             v == [i \in 1..Len(its) |->
                     Ev("PrintRule", [project |-> p, rule |-> its[i]], 1)]
         IN IF np = 0 THEN [ev |-> fetch \o v, err |-> "nil"]
            ELSE LET r == ListRulesOfProject(p, np, fail)
                 IN [ev |-> fetch \o v \o r.ev, err |-> r.err]

\* What the visitor of the list command returns after the walk w over the
\* rules of the project: (true, nil), whatever the walk returned.
ListVisitor(w) == 1

\* One iteration of the loop over the projects of the page.
VisitProject ==
    /\ pc = "Visit"
    /\ idx <= Len(items)
    /\ LET p == items[idx]
       IN IF ~Selected(call.expr, p)
          THEN /\ idx' = idx + 1
               /\ UNCHANGED <<pc, ret, result, didx, trace, server>>
          ELSE IF call.fn = "ForEachProjectInGroup"
          THEN \E ans \in {1, 0, -1} :
                   /\ trace' = Append(trace, Ev("visit", p, ans))
                   /\ AfterVisit(ans)
                   /\ server' = server
          ELSE IF call.fn = "ApprovalRulesUpdate"
          THEN \E fail \in RuleFails :
                   LET w == UpdateRulesOfProject(p, 1, call.userIDs,
                                                 call.dryRun, fail)
                       ans == IF w.err = "nil" THEN 1 ELSE -1
                   IN /\ trace' = trace \o w.ev \o <<Ev("visit", p, ans)>>
                      /\ AfterVisit(ans)
                      /\ server' = server
          ELSE IF call.fn = "ApprovalRulesList"
          THEN \E fail \in {f \in RuleFails : f.kind # "update"} :
                   LET w == ListRulesOfProject(p, 1, fail)
                   IN /\ trace' = trace \o w.ev \o <<Ev("visit", p, ListVisitor(w))>>
                      /\ AfterVisit(ListVisitor(w))
                      /\ server' = server
          ELSE /\ GetAllProjects_f(p)
               /\ idx' = idx + 1
               /\ UNCHANGED <<pc, ret, didx>>
    /\ UNCHANGED <<groupOrder, server0, call, page, items, nextPage, g,
                   collected>>
    /\ UNCHANGED <<optVars, fileVars>>

\* Variant: only the first page is visited.
NextProjectPage_FirstPageOnly ==
    /\ pc = "Visit"
    /\ idx > Len(items)
    /\ ForEachReturn("nil")
    /\ UNCHANGED page
    /\ UNCHANGED <<groupOrder, server, server0, call, items, idx, nextPage, g,
                   trace, collected>>
    /\ UNCHANGED <<optVars, fileVars>>

\* Variant: the page after resp.NextPage is requested.
NextProjectPage_SkipsPage ==
    /\ pc = "Visit"
    /\ idx > Len(items)
    /\ IF nextPage = 0
       THEN /\ ForEachReturn("nil")
            /\ UNCHANGED page
       ELSE /\ page' = nextPage + 1
            /\ pc' = "ListGroupProjects"
            /\ UNCHANGED <<ret, result, didx>>
    /\ UNCHANGED <<groupOrder, server, server0, call, items, idx, nextPage, g,
                   trace, collected>>
    /\ UNCHANGED <<optVars, fileVars>>

\* The end of a page: stop when resp.NextPage is 0, else request that page.
NextProjectPage ==
    /\ pc = "Visit"
    /\ idx > Len(items)
    /\ IF nextPage = 0
       THEN /\ ForEachReturn("nil")
            /\ UNCHANGED page
       ELSE /\ page' = nextPage
            /\ pc' = "ListGroupProjects"
            /\ UNCHANGED <<ret, result, didx>>
    /\ UNCHANGED <<groupOrder, server, server0, call, items, idx, nextPage, g,
                   trace, collected>>
    /\ UNCHANGED <<optVars, fileVars>>

\* ---------------------------------------------------------- DeleteProjects
\* Variant: a failed delete is passed over and the loop goes on.
DeleteProject_ContinueAfterFailure(p, dryRun) ==
    IF dryRun
    THEN /\ trace' = Append(trace, Ev("DryRunDelete", p, 0))
         /\ server' = server
         /\ didx' = didx + 1
         /\ UNCHANGED <<pc, ret>>
    ELSE \/ /\ p \in Range(server[ProjGroup(p)])
            /\ trace' = Append(trace, Ev("DeleteProject", p, 1))
            /\ server' = [server EXCEPT ![ProjGroup(p)] = Remove(@, p)]
            /\ didx' = didx + 1
            /\ UNCHANGED <<pc, ret>>
         \/ /\ trace' = Append(trace, Ev("DeleteProject", p, -1))
            /\ server' = server
            /\ didx' = didx + 1
            /\ UNCHANGED <<pc, ret>>

\* DeleteProject(s, p, dryRun): the request is sent unless dryRun; it
\* succeeds only for a project the server still holds.
DeleteProject(p, dryRun) ==
    IF dryRun
    THEN /\ trace' = Append(trace, Ev("DryRunDelete", p, 0))
         /\ server' = server
         /\ didx' = didx + 1
         /\ UNCHANGED <<pc, ret>>
    ELSE \/ /\ p \in Range(server[ProjGroup(p)])
            /\ trace' = Append(trace, Ev("DeleteProject", p, 1))
            /\ server' = [server EXCEPT ![ProjGroup(p)] = Remove(@, p)]
            /\ didx' = didx + 1
            /\ UNCHANGED <<pc, ret>>
         \/ /\ trace' = Append(trace, Ev("DeleteProject", p, -1))
            /\ server' = server
            /\ didx' = didx
            /\ pc' = "done"
            /\ ret' = "DeleteProjects: DeleteProject"

\* One iteration of the loop of DeleteProjects over the collected projects.
DeleteProjects ==
    /\ pc = "DeleteProject"
    /\ IF didx <= Len(result)
       THEN DeleteProject(result[didx], call.dryRun)
       ELSE /\ pc' = "done"
            /\ ret' = "nil"
            /\ UNCHANGED <<trace, server, didx>>
    /\ UNCHANGED <<groupOrder, server0, call, page, items, idx, nextPage, g,
                   result, collected>>
    /\ UNCHANGED <<optVars, fileVars>>


\* ---------------------------------------------------- CreateRandomProjects
\* CreateRandomProject for the i-th project: the request is sent unless
\* dryRun, and may fail.
CreateRandomProject(i, dryRun) ==
    IF dryRun
    THEN /\ trace' = Append(trace, Ev("DryRunCreate", i, 0))
         /\ didx' = didx + 1
         /\ UNCHANGED <<pc, ret>>
    ELSE \/ /\ trace' = Append(trace, Ev("CreateProject", i, 1))
            /\ didx' = didx + 1
            /\ UNCHANGED <<pc, ret>>
         \/ /\ trace' = Append(trace, Ev("CreateProject", i, -1))
            /\ didx' = didx
            /\ pc' = "done"
            /\ ret' = "CreateProject"

\* One iteration of the loop of CreateRandomProjects, i counted in didx.
CreateRandomProjects ==
    /\ pc = "CreateProject"
    /\ IF didx < call.count
       THEN CreateRandomProject(didx, call.dryRun)
       ELSE /\ pc' = "done"
            /\ ret' = "nil"
            /\ UNCHANGED <<trace, didx>>
    /\ UNCHANGED <<groupOrder, server, server0, call, page, items, idx,
                   nextPage, g, result, collected>>
    /\ UNCHANGED <<optVars, fileVars>>

\* --------------------------------------------- ForEachApprovalRuleInProject
\* s.GetProjectApprovalRules(p.ID, &opts): one page, or an error.
GetProjectApprovalRules ==
    /\ pc = "GetProjectApprovalRules"
    /\ \/ /\ trace' = Append(trace, Ev("GetProjectApprovalRules", page, -1))
          /\ pc' = "done"
          /\ ret' = "ForEachApprovalRuleInProject: GetProjectApprovalRules"
          /\ UNCHANGED <<items, idx, nextPage>>
       \/ /\ items' = PageItems(RuleIDs, page, PerPage)
          /\ nextPage' = PageNext(RuleIDs, page, PerPage)
          /\ idx' = 1
          /\ trace' = Append(trace, Ev("GetProjectApprovalRules", page,
                                       PageNext(RuleIDs, page, PerPage)))
          /\ pc' = "VisitRule"
          /\ UNCHANGED ret
    /\ UNCHANGED <<groupOrder, server, server0, call, page, g, result, didx,
                   collected>>
    /\ UNCHANGED <<optVars, fileVars>>

\* What a loop without callers in this model does with its visitor's answer.
AfterVisitPlain(ans) ==
    CASE ans = -1 -> /\ pc' = "done"
                     /\ ret' = "visit"
                     /\ idx' = idx
      [] ans = 0 -> /\ pc' = "done"
                    /\ ret' = "nil"
                    /\ idx' = idx
      [] OTHER -> /\ idx' = idx + 1
                  /\ UNCHANGED <<pc, ret>>

\* One iteration of the loop over the rules of the page.
VisitRule ==
    /\ pc = "VisitRule"
    /\ idx <= Len(items)
    /\ \E ans \in {1, 0, -1} :
           /\ trace' = Append(trace, Ev("visit", items[idx], ans))
           /\ AfterVisitPlain(ans)
    /\ UNCHANGED <<groupOrder, server, server0, call, page, items, nextPage,
                   g, result, didx, collected>>
    /\ UNCHANGED <<optVars, fileVars>>

NextRulePage ==
    /\ pc = "VisitRule"
    /\ idx > Len(items)
    /\ IF nextPage = 0
       THEN /\ pc' = "done"
            /\ ret' = "nil"
            /\ UNCHANGED page
       ELSE /\ page' = nextPage
            /\ pc' = "GetProjectApprovalRules"
            /\ UNCHANGED ret
    /\ UNCHANGED <<groupOrder, server, server0, call, items, idx, nextPage, g,
                   result, didx, trace, collected>>
    /\ UNCHANGED <<optVars, fileVars>>

\* ------------------------------------------------------------- ForEachUser
\* s.ListUsers(&opts): one page of the users matching the search, or an error.
ListUsers ==
    /\ pc = "ListUsers"
    /\ \/ /\ trace' = Append(trace, Ev("ListUsers", page, -1))
          /\ pc' = "done"
          /\ ret' = "ForEachUser: ListUsers"
          /\ UNCHANGED <<items, idx, nextPage>>
       \/ LET coll == SearchUsers(call.user)
          IN /\ items' = PageItems(coll, page, PerPage)
             /\ nextPage' = PageNext(coll, page, PerPage)
             /\ idx' = 1
             /\ trace' = Append(trace, Ev("ListUsers", page,
                                          PageNext(coll, page, PerPage)))
             /\ pc' = "VisitUser"
             /\ UNCHANGED ret
    /\ UNCHANGED <<groupOrder, server, server0, call, page, g, result, didx,
                   collected>>
    /\ UNCHANGED <<optVars, fileVars>>

VisitUser ==
    /\ pc = "VisitUser"
    /\ idx <= Len(items)
    /\ \E ans \in {1, 0, -1} :
           /\ trace' = Append(trace, Ev("visit", items[idx], ans))
           /\ AfterVisitPlain(ans)
    /\ UNCHANGED <<groupOrder, server, server0, call, page, items, nextPage,
                   g, result, didx, collected>>
    /\ UNCHANGED <<optVars, fileVars>>

NextUserPage ==
    /\ pc = "VisitUser"
    /\ idx > Len(items)
    /\ IF nextPage = 0
       THEN /\ pc' = "done"
            /\ ret' = "nil"
            /\ UNCHANGED page
       ELSE /\ page' = nextPage
            /\ pc' = "ListUsers"
            /\ UNCHANGED ret
    /\ UNCHANGED <<groupOrder, server, server0, call, items, idx, nextPage, g,
                   result, didx, trace, collected>>
    /\ UNCHANGED <<optVars, fileVars>>

\* ================================================= option resolution
\* Bounds on the command lines and options files the resolution is run on.
MaxGlobalFlags == 2
MaxLeafFlags == 1
MaxFileElems == 1

\* Sequences of length at most n over the set S.
RECURSIVE SeqsUpTo(_, _)
SeqsUpTo(S, n) ==
    IF n = 0 THEN {<<>>}
    ELSE LET prev == SeqsUpTo(S, n - 1)
         IN prev \cup UNION {{Append(q, x) : x \in S} : q \in prev}

\* Subsets of S with at most n elements.
RECURSIVE SetsUpTo(_, _)
SetsUpTo(S, n) ==
    IF n = 0 THEN {{}}
    ELSE LET prev == SetsUpTo(S, n - 1)
         IN prev \cup UNION {{T \cup {x} : x \in S} : T \in prev}

\* The fields of Options: GlobalOptions and the options of the leaf
\* commands of "project".  Every value is kept in its textual form.
GlobalFields == {"AuthFileName", "BaseURL", "Help", "OptionsFileName",
                 "ShowOptions", "Version"}
ListFields == {"list.Expr", "list.Group", "list.Recursive"}
DeleteFields == {"delete.DryRun", "delete.Expr", "delete.Group",
                 "delete.Recursive"}
CreateRandomFields == {"create-random.DryRun", "create-random.ParentGroup",
                       "create-random.ProjectBaseName",
                       "create-random.ProjectCount"}
Fields == GlobalFields \cup ListFields \cup DeleteFields \cup CreateRandomFields
BoolFields == {"Help", "ShowOptions", "Version", "list.Recursive",
               "delete.DryRun", "delete.Recursive", "create-random.DryRun"}

\* GlobalOptions.Initialize sets three defaults; every other field starts
\* at the zero value of its type.
Default(f) ==
    CASE f = "AuthFileName" -> "auth.xml"
      [] f = "BaseURL" -> "https://gitlab.com/"
      [] f = "OptionsFileName" -> "options.xml"
      [] f \in BoolFields -> "false"
      [] f = "create-random.ProjectCount" -> "0"
      [] OTHER -> ""

\* A variant in which OptionsFileName is decoded from an element.
XMLElement_OptionsFileNameTagged(f) ==
    CASE f = "AuthFileName" -> "global-options/auth-file-name"
      [] f = "BaseURL" -> "global-options/base-url"
      [] f = "Help" -> "global-options/help"
      [] f = "OptionsFileName" -> "global-options/options-file-name"
      [] f = "ShowOptions" -> "-"
      [] f = "Version" -> "global-options/version"
      [] f = "list.Expr" -> "project-options/list-options/expr"
      [] f = "list.Group" -> "project-options/list-options/group"
      [] f = "list.Recursive" -> "project-options/list-options/recursive"
      [] f = "delete.DryRun" -> "project-options/delete-options/dry-run"
      [] f = "delete.Expr" -> "project-options/delete-options/expr"
      [] f = "delete.Group" -> "project-options/delete-options/group"
      [] f = "delete.Recursive" -> "project-options/delete-options/recursive"
      [] f = "create-random.DryRun" -> "project-options/create-random-options/DryRun"
      [] f = "create-random.ParentGroup" -> "project-options/create-random-options/ParentGroup"
      [] f = "create-random.ProjectBaseName" -> "project-options/create-random-options/ProjectBaseName"
      [] OTHER -> "project-options/create-random-options/ProjectCount"

\* The xml struct tag of a field as the path of its element below
\* <options>; "-" for a field the decoder skips.  The fields of
\* ProjectCreateRandomOptions carry no tag and decode from the element
\* named after the field.
XMLElement(f) ==
    CASE f = "AuthFileName" -> "global-options/auth-file-name"
      [] f = "BaseURL" -> "global-options/base-url"
      [] f = "Help" -> "global-options/help"
      [] f = "OptionsFileName" -> "-"
      [] f = "ShowOptions" -> "-"
      [] f = "Version" -> "global-options/version"
      [] f = "list.Expr" -> "project-options/list-options/expr"
      [] f = "list.Group" -> "project-options/list-options/group"
      [] f = "list.Recursive" -> "project-options/list-options/recursive"
      [] f = "delete.DryRun" -> "project-options/delete-options/dry-run"
      [] f = "delete.Expr" -> "project-options/delete-options/expr"
      [] f = "delete.Group" -> "project-options/delete-options/group"
      [] f = "delete.Recursive" -> "project-options/delete-options/recursive"
      [] f = "create-random.DryRun" -> "project-options/create-random-options/DryRun"
      [] f = "create-random.ParentGroup" -> "project-options/create-random-options/ParentGroup"
      [] f = "create-random.ProjectBaseName" -> "project-options/create-random-options/ProjectBaseName"
      [] OTHER -> "project-options/create-random-options/ProjectCount"

\* Elements an options file may hold: those of the fields, and elements
\* named after the two options that have no element.
StrayElements == {"global-options/options-file-name", "global-options/options",
                  "global-options/show-options"}
FileElements == ({XMLElement(f) : f \in Fields} \ {"-"}) \cup StrayElements
FileVal(e) ==
    CASE e \in {"global-options/options-file-name", "global-options/options"} -> "evil.xml"
      [] e \in {XMLElement(f) : f \in BoolFields} \cup {"global-options/show-options"} -> "true"
      [] e = XMLElement("create-random.ProjectCount") -> "5"
      [] OTHER -> "file:" \o e
FileChoices ==
    {[e \in S |-> FileVal(e)] : S \in SetsUpTo(FileElements, MaxFileElems)}
AltFile ==
    [e \in {"global-options/base-url", "global-options/options-file-name",
            "project-options/delete-options/dry-run"} |-> FileVal(e)]

\* Command-line tokens: a flag with its value, or a name.
Flag(n, v) == [k |-> "flag", name |-> n, val |-> v]
Name(n) == [k |-> "name", name |-> n, val |-> ""]

\* The flag sets: flag name -> the field flag.Parse stores its value in.
\* GlobalOptions.Initialize registers on cmd.flags:
GlobalFlags ==
    ("auth" :> "AuthFileName") @@ ("base-url" :> "BaseURL") @@
    ("h" :> "Help") @@ ("help" :> "Help") @@
    ("options" :> "OptionsFileName") @@ ("show-options" :> "ShowOptions") @@
    ("v" :> "Version") @@ ("version" :> "Version")
ProjectFlags == <<>>
ProjectListFlags ==
    ("expr" :> "list.Expr") @@ ("group" :> "list.Group") @@
    ("r" :> "list.Recursive") @@ ("recursive" :> "list.Recursive")
\* ProjectDeleteOptions.Initialize registers -n and --dry-run with
\* flag.BoolVar, that is on flag.CommandLine, which nothing parses, and
\* the other four flags on the flag set of the command.
ProjectDeleteFlags ==
    ("expr" :> "delete.Expr") @@ ("group" :> "delete.Group") @@
    ("r" :> "delete.Recursive") @@ ("recursive" :> "delete.Recursive")
ProjectCreateRandomFlags ==
    ("n" :> "create-random.DryRun") @@ ("dry-run" :> "create-random.DryRun") @@
    ("parent-group" :> "create-random.ParentGroup") @@
    ("project-base-name" :> "create-random.ProjectBaseName") @@
    ("project-count" :> "create-random.ProjectCount")

Leaves == {"create-random", "delete", "list"}
LeafFlags(leaf) ==
    CASE leaf = "list" -> ProjectListFlags
      [] leaf = "delete" -> ProjectDeleteFlags
      [] OTHER -> ProjectCreateRandomFlags

\* flags.Parse(args): stores the value of every leading flag token, stops
\* at the first name; a flag the set does not define is an error, on which
\* the flag set calls its Usage and the process ends (flag.ExitOnError);
\* -h and -help, where the set does not define them, are the error
\* flag.ErrHelp.
RECURSIVE Parse(_, _, _)
Parse(fs, opts, a) ==
    IF a = <<>> \/ Head(a).k = "name"
    THEN [opts |-> opts, rest |-> a, err |-> ""]
    ELSE IF Head(a).name \notin DOMAIN fs
    THEN [opts |-> opts, rest |-> a,
          err |-> IF Head(a).name \in {"h", "help"} THEN "flag: help requested"
                  ELSE "flag provided but not defined"]
    ELSE Parse(fs, [opts EXCEPT ![fs[Head(a).name]] = Head(a).val], Tail(a))

\* Options.LoadFromXMLFile: os.Open fails for a file that does not exist;
\* the decoder stores every element of the file that is the element of a
\* field and skips the others.
LoadFromXMLFile(opts, fname) ==
    IF fname \notin DOMAIN optFiles
    THEN [opts |-> opts, err |-> "LoadFromXMLFile: open"]
    ELSE [opts |-> [f \in DOMAIN opts |->
                      IF XMLElement(f) \in DOMAIN optFiles[fname]
                      THEN optFiles[fname][XMLElement(f)]
                      ELSE opts[f]],
          err |-> ""]

\* A new Options after GlobalOptions.Initialize.
NewOptions == [f \in Fields |-> Default(f)]

GetOptionsXMLFileName(args) ==
    LET r == Parse(GlobalFlags, NewOptions, args)
    IN [name |-> r.opts["OptionsFileName"], err |-> r.err]

\* PeakAtGlobalOptions: defaults, then the options file named on the
\* command line (or by default), then the command line, on an Options of
\* its own; the GlobalOptions part is returned.
PeakAtGlobalOptions(args) ==
    LET n == GetOptionsXMLFileName(args)
        l == IF n.name # "" THEN LoadFromXMLFile(NewOptions, n.name)
             ELSE [opts |-> NewOptions, err |-> ""]
        r == Parse(GlobalFlags, l.opts, args)
    IN IF n.err # "" THEN [opts |-> NewOptions, err |-> n.err]
       ELSE IF l.err # "" THEN [opts |-> NewOptions, err |-> l.err]
       ELSE [opts |-> [f \in GlobalFields |-> r.opts[f]], err |-> r.err]

NoPeek == [f \in GlobalFields |-> ""]

\* The command lines: global flags, then the names of the commands, then
\* flags of the leaf command named.
GlobalSettings ==
    {Flag("auth", "cli-auth.xml"), Flag("base-url", "cli-url"),
     Flag("h", "true"), Flag("help", "true"), Flag("options", "alt.xml"),
     Flag("show-options", "true"), Flag("v", "true"), Flag("version", "true")}
LeafSettings(leaf) ==
    CASE leaf = "list" ->
           {Flag("expr", "cli-expr"), Flag("group", "cli-group"),
            Flag("r", "true"), Flag("recursive", "true"),
            Flag("h", "true"), Flag("help", "true")}
      [] leaf = "delete" ->
           {Flag("n", "true"), Flag("n", "false"), Flag("dry-run", "true"),
            Flag("dry-run", "false"), Flag("expr", "cli-expr"),
            Flag("group", "cli-group"), Flag("r", "true"),
            Flag("recursive", "true"), Flag("h", "true"), Flag("help", "true")}
      [] OTHER ->
           {Flag("n", "true"), Flag("n", "false"), Flag("dry-run", "true"),
            Flag("dry-run", "false"), Flag("parent-group", "cli-parent"),
            Flag("project-base-name", "cli-base"), Flag("project-count", "3"),
            Flag("h", "true"), Flag("help", "true")}
OtherPaths == {<<>>, <<Name("bogus")>>, <<Name("project")>>,
               <<Name("project"), Name("bogus")>>,
               <<Name("project"), Flag("h", "true")>>,
               <<Name("project"), Flag("help", "true"), Name("list")>>}
\* Command lines with a flag of a leaf command before the name of the
\* command, and with an argument left over after the flags of the leaf.
OddLines ==
    {<<Flag("group", "cli-group"), Name("project"), Name("list")>>,
     <<Name("project"), Flag("group", "cli-group"), Name("list")>>,
     <<Name("project"), Name("list"), Flag("group", "cli-group"), Name("extra")>>,
     <<Name("project"), Name("list"), Flag("group", "cli-group"),
       Name("project"), Name("delete")>>}
CmdLines ==
    OddLines \cup
    UNION {{gf \o pth : pth \in OtherPaths}
           \cup UNION {{gf \o <<Name("project"), Name(leaf)>> \o lf :
                          lf \in SeqsUpTo(LeafSettings(leaf), MaxLeafFlags)} :
                       leaf \in Leaves} :
           gf \in SeqsUpTo(GlobalSettings, MaxGlobalFlags)}

\* The generator map of the global command: addSubcmdGenerators.
Generators == {"project"}

\* The Runner a generator makes, by the name and children of its command,
\* and the nil Runner Usage stores for a command not generated yet.
Runner(n) == [name |-> n, subcmds |-> IF n = "project" THEN Leaves ELSE {}]
NilRunner == [name |-> "nil", subcmds |-> {}]

\* slices.Sort on command names: the names there are, in sorted order.
CommandOrder == <<"bogus", "create-random", "delete", "extra", "list", "project">>
SortedCommandNames(S) == SelectSeq(CommandOrder, LAMBDA n : n \in S)

\* An entry of the log of the steps of a run: the step, the command node
\* that made it, the arguments it was given and the option fields it wrote.
Step(op, node, args, wrote) ==
    [op |-> op, node |-> node, args |-> args, wrote |-> wrote]

\* The fields the flags that Parse consumed from a are stored in.
Consumed(fs, a, r) ==
    {fs[a[i].name] : i \in 1..(Len(a) - Len(r.rest))}

\* The state after NewGlobalCommand, when main calls Run(os.Args[1:]).
OptInit ==
    /\ cmdline \in CmdLines
    /\ \E c \in FileChoices :
           optFiles = ("options.xml" :> c) @@ ("alt.xml" :> AltFile)
    /\ allOpts = NewOptions
    /\ globalOpts = NoPeek
    /\ subcmds = <<>>
    /\ rest = <<>>
    /\ rpc = "Run"
    /\ rerr = ""
    /\ steps = <<Step("Initialize", "", <<>>, GlobalFields)>>
    /\ out = <<>>

\* The option variables while no command line is being resolved.
OptIdle ==
    /\ cmdline = <<>>
    /\ optFiles = <<>>
    /\ allOpts = NewOptions
    /\ globalOpts = NoPeek
    /\ subcmds = <<>>
    /\ rest = <<>>
    /\ rpc = "off"
    /\ rerr = ""
    /\ steps = <<>>
    /\ out = <<>>

\* Run returns err, or the process exits.
Finish(how, err) ==
    /\ rpc' = how
    /\ rerr' = err

\* Variant: the names are those of the subcommands generated so far.
GlobalUsage_GeneratedOnly(stream, err) ==
    /\ subcmds' = subcmds
    /\ out' = Append(out, [usage |-> "", stream |-> stream,
                           names |-> SortedCommandNames(DOMAIN subcmds')])
    /\ Finish("exited", (IF stream = "stderr" THEN "exit 1: " ELSE "exit 0: ") \o err)

\* GlobalCommand.Usage(out, err): prints the names of the subcommands,
\* those of the generators if no subcommand is there yet, and exits, with
\* status 1 if it printed to stderr.
GlobalUsage(stream, err) ==
    /\ subcmds' = IF DOMAIN subcmds = {} THEN [n \in Generators |-> NilRunner]
                  ELSE subcmds
    /\ out' = Append(out, [usage |-> "", stream |-> stream,
                           names |-> SortedCommandNames(DOMAIN subcmds')])
    /\ Finish("exited", (IF stream = "stderr" THEN "exit 1: " ELSE "exit 0: ") \o err)

\* Usage of the command node (other than the global command): prints the
\* names of its children and exits.
NodeUsage(node, stream, err) ==
    /\ out' = Append(out, [usage |-> node, stream |-> stream,
                           names |-> SortedCommandNames(Runner(node).subcmds)])
    /\ Finish("exited", (IF stream = "stderr" THEN "exit 1: " ELSE "exit 0: ") \o err)

\* GlobalCommand.Run, lines 389-392.  The flag sets of the peek are local
\* ones with the usage of the flag package: a flag they do not define ends
\* the process with status 2.
Run_PeakAtGlobalOptions ==
    /\ rpc = "Run"
    /\ LET r == PeakAtGlobalOptions(cmdline)
       IN IF r.err # ""
          THEN /\ IF r.err = "LoadFromXMLFile: open"
                  THEN Finish("returned", r.err)
                  ELSE Finish("exited", "exit 2: " \o r.err)
               /\ UNCHANGED globalOpts
          ELSE /\ globalOpts' = r.opts
               /\ rpc' = "peeked"
               /\ UNCHANGED rerr
    /\ steps' = steps \o <<Step("Run", "", cmdline, {}),
                           Step("PeakAtGlobalOptions", "", cmdline, {})>>
    /\ UNCHANGED <<cmdline, optFiles, allOpts, subcmds, rest, out>>
    /\ UNCHANGED <<travVars, fileVars>>

\* Variant: the version is printed and Run goes on.
Run_HelpOrVersion_VersionGoesOn ==
    /\ rpc = "peeked"
    /\ IF globalOpts["Help"] = "true"
       THEN GlobalUsage("stdout", "usage")
       ELSE IF globalOpts["Version"] = "true"
       THEN /\ rpc' = "auth"
            /\ out' = Append(out, [usage |-> "version", stream |-> "stdout",
                                   names |-> <<>>])
            /\ UNCHANGED <<rerr, subcmds>>
       ELSE /\ rpc' = "auth"
            /\ UNCHANGED <<rerr, out, subcmds>>
    /\ UNCHANGED <<cmdline, optFiles, allOpts, globalOpts, rest, steps>>
    /\ UNCHANGED <<travVars, fileVars>>

\* Lines 394-404: help prints the usage and exits, version prints and returns.
Run_HelpOrVersion ==
    /\ rpc = "peeked"
    /\ IF globalOpts["Help"] = "true"
       THEN GlobalUsage("stdout", "usage")
       ELSE IF globalOpts["Version"] = "true"
       THEN /\ Finish("returned", "nil")
            /\ out' = Append(out, [usage |-> "version", stream |-> "stdout",
                                   names |-> <<>>])
            /\ UNCHANGED subcmds
       ELSE /\ rpc' = "auth"
            /\ UNCHANGED <<rerr, out, subcmds>>
    /\ UNCHANGED <<cmdline, optFiles, allOpts, globalOpts, rest, steps>>
    /\ UNCHANGED <<travVars, fileVars>>

\* Variant: the commands are generated although no client was created.
Run_CreateGitlabClient_GenerateAnyway ==
    /\ rpc = "auth"
    /\ \/ /\ rpc' = "generate"
          /\ UNCHANGED <<rerr, steps>>
       \/ /\ rpc' = "generate"
          /\ steps' = Append(steps, Step("CreateGitlabClient", "", <<>>, {}))
          /\ UNCHANGED rerr
    /\ UNCHANGED <<cmdline, optFiles, allOpts, globalOpts, subcmds, rest, out>>
    /\ UNCHANGED <<travVars, fileVars>>

\* Lines 425-438: authinfo.Load and CreateGitlabClient, either may fail.
Run_CreateGitlabClient ==
    /\ rpc = "auth"
    /\ \/ /\ Finish("returned", "LoadAuthInfo")
          /\ UNCHANGED steps
       \/ /\ Finish("returned", "CreateGitlabClient")
          /\ UNCHANGED steps
       \/ /\ rpc' = "generate"
          /\ steps' = Append(steps, Step("CreateGitlabClient", "", <<>>, {}))
          /\ UNCHANGED rerr
    /\ UNCHANGED <<cmdline, optFiles, allOpts, globalOpts, subcmds, rest, out>>
    /\ UNCHANGED <<travVars, fileVars>>

\* Variant: the commands are generated after the options file is loaded.
generateSubcmds_AfterLoad ==
    /\ rpc \in {"generate", "parse"}
    /\ IF rpc = "generate"
       THEN /\ rpc' = "load"
            /\ UNCHANGED <<subcmds, allOpts, steps>>
       ELSE /\ DOMAIN subcmds = {}
            /\ subcmds' = [n \in Generators |-> Runner(n)]
            /\ allOpts' = [allOpts EXCEPT !["create-random.ParentGroup"] = "",
                                          !["create-random.ProjectBaseName"] = "",
                                          !["create-random.ProjectCount"] = "0"]
            /\ steps' = Append(steps, Step("generateSubcmds", "", <<>>,
                                           Fields \ GlobalFields))
            /\ UNCHANGED rpc
    /\ UNCHANGED <<cmdline, optFiles, globalOpts, rest, rerr, out>>
    /\ UNCHANGED <<travVars, fileVars>>

\* generateSubcmds: every generator is called and its Runner stored;
\* NewProjectCommand constructs the command and its three leaf commands.
\* Registering a flag stores its default in the field: the list and delete
\* options register the current value of the field,
\* ProjectCreateRandomOptions registers "" and 0 for its last three flags.
generateSubcmds ==
    /\ rpc = "generate"
    /\ subcmds' = [n \in Generators |-> Runner(n)]
    /\ allOpts' = [allOpts EXCEPT !["create-random.ParentGroup"] = "",
                                  !["create-random.ProjectBaseName"] = "",
                                  !["create-random.ProjectCount"] = "0"]
    /\ steps' = Append(steps, Step("generateSubcmds", "", <<>>,
                                   Fields \ GlobalFields))
    /\ rpc' = "load"
    /\ UNCHANGED <<cmdline, optFiles, globalOpts, rest, rerr, out>>
    /\ UNCHANGED <<travVars, fileVars>>

\* Lines 449-455: the options file named by the peeked options is decoded
\* into cmd.allOpts; on an error the usage is printed to stderr.  The file
\* the peek could read may fail to open now.
Run_LoadFromXMLFile ==
    /\ rpc = "load"
    /\ IF globalOpts["OptionsFileName"] = ""
       THEN /\ rpc' = "parse"
            /\ UNCHANGED <<allOpts, rerr, steps, out, subcmds>>
       ELSE LET fname == globalOpts["OptionsFileName"]
                r == LoadFromXMLFile(allOpts, fname)
            IN \/ /\ GlobalUsage("stderr",
                                 IF r.err # "" THEN r.err ELSE "LoadFromXMLFile: open")
                  /\ UNCHANGED <<allOpts, steps>>
               \/ /\ r.err = ""
                  /\ allOpts' = r.opts
                  /\ steps' = Append(steps,
                        Step("LoadFromXMLFile", "", <<>>,
                             {f \in Fields : XMLElement(f) \in DOMAIN optFiles[fname]}))
                  /\ rpc' = "parse"
                  /\ UNCHANGED <<rerr, out, subcmds>>
    /\ UNCHANGED <<cmdline, optFiles, globalOpts, rest>>
    /\ UNCHANGED <<travVars, fileVars>>

\* Lines 458-461: cmd.flags.Parse(args); on a flag that is not defined
\* the flag set calls cmd.flags.Usage, which is Usage(os.Stderr, nil).
Run_Parse ==
    /\ rpc = "parse"
    /\ LET r == Parse(GlobalFlags, allOpts, cmdline)
       IN IF r.err # ""
          THEN /\ GlobalUsage("stderr", r.err)
               /\ UNCHANGED <<allOpts, rest, steps>>
          ELSE /\ allOpts' = r.opts
               /\ rest' = r.rest
               /\ rpc' = "parsed"
               /\ steps' = Append(steps, Step("Parse", "", cmdline,
                                              Consumed(GlobalFlags, cmdline, r)))
               /\ UNCHANGED <<rerr, out, subcmds>>
    /\ UNCHANGED <<cmdline, optFiles, globalOpts>>
    /\ UNCHANGED <<travVars, fileVars>>

\* What main prints when Run returns an error: the message, of which
\* names are the command names that occur in it.
MainPrintsError(names) ==
    out' = Append(out, [usage |-> "error", stream |-> "stderr", names |-> names])

\* Variant: the first child is run when args[0] names none.
DispatchSubcommand_RunFirstChild(prefix, kids, args) ==
    IF Len(args) < 1
    THEN /\ Finish("returned", "no subcommand specified")
         /\ MainPrintsError(<<>>)
         /\ UNCHANGED rest
    ELSE IF args[1].name \notin kids /\ kids = {}
    THEN /\ Finish("returned", "invalid subcommand")
         /\ MainPrintsError(<<args[1].name>>)
         /\ UNCHANGED rest
    ELSE /\ rpc' = prefix \o (IF args[1].name \in kids THEN args[1].name
                              ELSE SortedCommandNames(kids)[1])
         /\ rest' = Tail(args)
         /\ UNCHANGED <<rerr, out>>

\* ParentCommand.DispatchSubcommand(args) at a command with the children
\* kids: the child named args[0] runs with args[1:]; the errors it
\* returns go up to main, which prints them.
DispatchSubcommand(prefix, kids, args) ==
    IF Len(args) < 1
    THEN /\ Finish("returned", "no subcommand specified")
         /\ MainPrintsError(<<>>)
         /\ UNCHANGED rest
    ELSE IF args[1].name \notin kids
    THEN /\ Finish("returned", "invalid subcommand")
         /\ MainPrintsError(<<args[1].name>>)
         /\ UNCHANGED rest
    ELSE /\ rpc' = prefix \o args[1].name
         /\ rest' = Tail(args)
         /\ UNCHANGED <<rerr, out>>

\* Lines 463-476: show the options, or dispatch the subcommand.
Run_DispatchSubcommand ==
    /\ rpc = "parsed"
    /\ IF allOpts["ShowOptions"] = "true"
       THEN /\ Finish("returned", "nil")
            /\ UNCHANGED <<rest, steps, out>>
       ELSE /\ DispatchSubcommand("", DOMAIN subcmds, rest)
            /\ steps' = Append(steps, Step("DispatchSubcommand", "", rest, {}))
    /\ UNCHANGED <<cmdline, optFiles, allOpts, globalOpts, subcmds>>
    /\ UNCHANGED <<travVars, fileVars>>

\* Variant: the command takes the flags of its leaf commands for its own.
ProjectCommand_Run_ConsumesLeafFlags ==
    /\ rpc = "project"
    /\ LET r == Parse(ProjectListFlags, allOpts, rest)
       IN IF r.err # ""
          THEN /\ NodeUsage("project", "stderr", r.err)
               /\ steps' = Append(steps, Step("Run", "project", rest, {}))
               /\ UNCHANGED <<rest, allOpts>>
          ELSE /\ DispatchSubcommand("project ", subcmds["project"].subcmds, r.rest)
               /\ allOpts' = r.opts
               /\ steps' = steps \o
                    <<Step("Run", "project", rest, {}),
                      Step("Parse", "project", rest,
                           Consumed(ProjectListFlags, rest, r)),
                      Step("DispatchSubcommand", "project", r.rest, {})>>
    /\ UNCHANGED <<cmdline, optFiles, globalOpts, subcmds>>
    /\ UNCHANGED <<travVars, fileVars>>

\* ProjectCommand.Run: parses its flags, of which it has none, and
\* dispatches what is left.
ProjectCommand_Run ==
    /\ rpc = "project"
    /\ LET r == Parse(ProjectFlags, allOpts, rest)
       IN IF r.err # ""
          THEN /\ NodeUsage("project", "stderr", r.err)
               /\ steps' = Append(steps, Step("Run", "project", rest, {}))
               /\ UNCHANGED <<rest, allOpts>>
          ELSE /\ DispatchSubcommand("project ", subcmds["project"].subcmds, r.rest)
               /\ allOpts' = r.opts
               /\ steps' = steps \o
                    <<Step("Run", "project", rest, {}),
                      Step("Parse", "project", rest,
                           Consumed(ProjectFlags, rest, r)),
                      Step("DispatchSubcommand", "project", r.rest, {})>>
    /\ UNCHANGED <<cmdline, optFiles, globalOpts, subcmds>>
    /\ UNCHANGED <<travVars, fileVars>>

\* The usage of the flag package, which a flag set without a Usage of
\* its own prints to stderr: the process then ends with status 0 if help
\* was asked for, else with status 2.
DefaultUsage(node, err) ==
    /\ out' = Append(out, [usage |-> "Usage of " \o node, stream |-> "stderr",
                           names |-> <<>>])
    /\ Finish("exited", (IF err = "flag: help requested" THEN "exit 0: "
                         ELSE "exit 2: ") \o err)

\* The commands whose constructor sets flags.Usage to their own Usage on
\* stderr; NewProjectCreateRandomCommand does not.
HasOwnUsage(node) == node # "project create-random"

\* Run of a leaf command: parse its flags, check its required options,
\* then its own logic; what is left of the arguments is not looked at.
LeafRun(leaf, required) ==
    /\ rpc = "project " \o leaf
    /\ LET r == Parse(LeafFlags(leaf), allOpts, rest)
       IN IF r.err # ""
          THEN /\ IF HasOwnUsage("project " \o leaf)
                  THEN NodeUsage("project " \o leaf, "stderr", r.err)
                  ELSE DefaultUsage("project " \o leaf, r.err)
               /\ steps' = Append(steps, Step("Run", "project " \o leaf, rest, {}))
               /\ UNCHANGED <<allOpts, rest>>
          ELSE /\ allOpts' = r.opts
               /\ rest' = r.rest
               /\ IF \E f \in required : r.opts[f] = Default(f)
                  THEN /\ Finish("returned", "required option not set")
                       /\ MainPrintsError(<<>>)
                       /\ steps' = steps \o
                            <<Step("Run", "project " \o leaf, rest, {}),
                              Step("Parse", "project " \o leaf, rest,
                                   Consumed(LeafFlags(leaf), rest, r))>>
                  ELSE /\ Finish("ran", "")
                       /\ UNCHANGED out
                       /\ steps' = steps \o
                            <<Step("Run", "project " \o leaf, rest, {}),
                              Step("Parse", "project " \o leaf, rest,
                                   Consumed(LeafFlags(leaf), rest, r)),
                              Step("Logic", "project " \o leaf, r.rest, {})>>
    /\ UNCHANGED <<cmdline, optFiles, globalOpts, subcmds>>
    /\ UNCHANGED <<travVars, fileVars>>

ProjectListCommand_Run == LeafRun("list", {"list.Group"})
ProjectDeleteCommand_Run == LeafRun("delete", {"delete.Group"})
ProjectCreateRandomCommand_Run ==
    LeafRun("create-random",
            {"create-random.ParentGroup", "create-random.ProjectBaseName",
             "create-random.ProjectCount"})

\* The files while no command reads or writes them.
NoAuthInfo == [scheme |-> "none", val |-> <<>>, err |-> ""]
FilesIdle ==
    /\ authXml = <<>>
    /\ authInfo = NoAuthInfo
    /\ usersXml = [state |-> "missing", users |-> <<>>]
    /\ glUsers = <<>>

\* ------------------------------------------------------------- credentials
\* The file of the credentials: missing, not well-formed, or an AuthInfo
\* element with some of the four elements the schemes know, each empty or
\* with a text.
AuthTags == {"username", "password", "oauth-token", "private-token"}
AuthTexts == {"", "secret"}
AuthFiles ==
    {[state |-> "missing", elems |-> <<>>], [state |-> "malformed", elems |-> <<>>]}
    \cup {[state |-> "ok", elems |-> e] :
            e \in UNION {[S -> AuthTexts] : S \in SUBSET AuthTags}}

\* The string field of the struct that xml.Decoder.Decode fills from the
\* element with the tag: the text of the element, "" without the element.
Decoded(doc, tag) == IF tag \in DOMAIN doc.elems THEN doc.elems[tag] ELSE ""
ErrAuthInfoInvalidXML == "invalid XML"
DecodeErr == "XML syntax error"

\* Variant: a user name alone is enough.
NewBasicAuthInfoFromXML_UsernameOnly(doc) ==
    IF doc.state # "ok"
    THEN [scheme |-> "basic", val |-> <<>>, err |-> DecodeErr]
    ELSE IF Decoded(doc, "username") = ""
    THEN [scheme |-> "basic", val |-> <<>>, err |-> ErrAuthInfoInvalidXML]
    ELSE [scheme |-> "basic",
          val |-> <<Decoded(doc, "username"), Decoded(doc, "password")>>, err |-> ""]

NewBasicAuthInfoFromXML(doc) ==
    IF doc.state # "ok"
    THEN [scheme |-> "basic", val |-> <<>>, err |-> DecodeErr]
    ELSE IF Decoded(doc, "username") = "" \/ Decoded(doc, "password") = ""
    THEN [scheme |-> "basic", val |-> <<>>, err |-> ErrAuthInfoInvalidXML]
    ELSE [scheme |-> "basic",
          val |-> <<Decoded(doc, "username"), Decoded(doc, "password")>>, err |-> ""]

NewOAuthTokenFromXML(doc) ==
    IF doc.state # "ok"
    THEN [scheme |-> "oauth", val |-> <<>>, err |-> DecodeErr]
    ELSE IF Decoded(doc, "oauth-token") = ""
    THEN [scheme |-> "oauth", val |-> <<>>, err |-> ErrAuthInfoInvalidXML]
    ELSE [scheme |-> "oauth", val |-> <<Decoded(doc, "oauth-token")>>, err |-> ""]

NewPrivateTokenFromXML(doc) ==
    IF doc.state # "ok"
    THEN [scheme |-> "private", val |-> <<>>, err |-> DecodeErr]
    ELSE IF Decoded(doc, "private-token") = ""
    THEN [scheme |-> "private", val |-> <<>>, err |-> ErrAuthInfoInvalidXML]
    ELSE [scheme |-> "private", val |-> <<Decoded(doc, "private-token")>>, err |-> ""]

\* authinfo.Load(fname): the first of the OAuth token, the private token
\* and the basic credentials that the file parses as, else the error of
\* the last attempt.
LoadAuthInfo(doc) ==
    IF doc.state = "missing" THEN [scheme |-> "nil", val |-> <<>>, err |-> "open"]
    ELSE IF NewOAuthTokenFromXML(doc).err = "" THEN NewOAuthTokenFromXML(doc)
    ELSE IF NewPrivateTokenFromXML(doc).err = "" THEN NewPrivateTokenFromXML(doc)
    ELSE IF NewBasicAuthInfoFromXML(doc).err = "" THEN NewBasicAuthInfoFromXML(doc)
    ELSE [scheme |-> "nil", val |-> <<>>, err |-> NewBasicAuthInfoFromXML(doc).err]

AuthInit ==
    /\ authXml \in AuthFiles
    /\ authInfo = NoAuthInfo
    /\ usersXml = [state |-> "missing", users |-> <<>>]
    /\ glUsers = <<>>

Load ==
    /\ authInfo = NoAuthInfo
    /\ authXml # <<>>
    /\ authInfo' = LoadAuthInfo(authXml)
    /\ UNCHANGED <<authXml, usersXml, glUsers>>
    /\ UNCHANGED <<travVars, optVars>>

\* --------------------------------------------------- the leaf commands
\* The leaf commands run on their own: Run(args) of a command whose
\* options hold the defaults overlaid by the options file, which is how
\* GlobalCommand.Run leaves them when it dispatches.
\* Largest number of flags on the command line of a leaf command.
MaxArgs == 2
\* Largest number of elements the options file has for a leaf command.
MaxElems == 2
\* Largest number of users in the users file, and looked up by one run.
MaxUsers == 2

Commands ==
    {"project delete", "projects create-random", "projects list",
     "projects approval-rules list", "projects approval-rules update",
     "users list"}

\* The fields of the options struct of a command.
OptionsOf(c) ==
    CASE c = "project delete" -> {"DryRun", "Expr", "Group", "Recursive"}
      [] c = "projects create-random" ->
           {"DryRun", "ParentGroup", "ProjectBaseName", "ProjectCount"}
      [] c = "projects list" -> {"Expr", "Group", "Recursive"}
      [] c = "projects approval-rules list" -> {"Expr", "Group", "Recursive"}
      [] c = "projects approval-rules update" ->
           {"ApproversFileName", "DryRun", "Expr", "Group", "Recursive"}
      [] OTHER -> {"CreatedAfter", "MatchSubstrings", "OutputFileName", "Users"}

\* The zero value of a field: "", false, 0, the nil slice.
ZeroValue(f) ==
    CASE f \in {"DryRun", "Recursive", "MatchSubstrings"} -> "false"
      [] f = "ProjectCount" -> "0"
      [] f = "Users" -> <<>>
      [] OTHER -> ""

\* The xml tag of a field.
Tag(f) ==
    CASE f = "ApproversFileName" -> "approvers-file-name"
      [] f = "DryRun" -> "dry-run"
      [] f = "Expr" -> "expr"
      [] f = "Group" -> "group"
      [] f = "Recursive" -> "recursive"
      [] f = "CreatedAfter" -> "created-after"
      [] f = "ParentGroup" -> "parent-group"
      [] f = "ProjectBaseName" -> "project-base-name"
      [] f = "ProjectCount" -> "project-count"
      [] f = "MatchSubstrings" -> "match-substrings"
      [] f = "OutputFileName" -> "output-file-name"
      [] OTHER -> "users>user"

\* The flag set of a command as its Initialize registers it: flag name ->
\* field.  ProjectDeleteOptions.Initialize registers -n and --dry-run on
\* flag.CommandLine, so the flag set of the command does not have them.
FlagsOf(c) ==
    CASE c = "project delete" ->
           ("expr" :> "Expr") @@ ("group" :> "Group") @@
           ("r" :> "Recursive") @@ ("recursive" :> "Recursive")
      [] c = "projects create-random" ->
           ("n" :> "DryRun") @@ ("dry-run" :> "DryRun") @@
           ("parent-group" :> "ParentGroup") @@
           ("project-base-name" :> "ProjectBaseName") @@
           ("project-count" :> "ProjectCount")
      [] c \in {"projects list", "projects approval-rules list"} ->
           ("expr" :> "Expr") @@ ("group" :> "Group") @@
           ("r" :> "Recursive") @@ ("recursive" :> "Recursive")
      [] c = "projects approval-rules update" ->
           ("approvers" :> "ApproversFileName") @@
           ("n" :> "DryRun") @@ ("dry-run" :> "DryRun") @@
           ("expr" :> "Expr") @@ ("group" :> "Group") @@
           ("r" :> "Recursive") @@ ("recursive" :> "Recursive")
      [] OTHER ->
           ("created-after" :> "CreatedAfter") @@
           ("match-substrings" :> "MatchSubstrings") @@
           ("o" :> "OutputFileName") @@ ("out" :> "OutputFileName") @@
           ("users" :> "Users")

\* strings.TrimSpace of one part of a --users value.
TrimSpace(x) ==
    CASE x = " bob" -> "bob"
      [] x = "cat " -> "cat"
      [] OTHER -> x

\* StringSlice.Set(s): every part of strings.Split(s, ","), trimmed, is
\* appended to the slice.  A value is given as its parts.
StringSlice_Set(xs, parts) == xs \o [i \in 1..Len(parts) |-> TrimSpace(parts[i])]

\* flag.Value.Set of the field a flag is bound to: the built-in values
\* store the new value, a StringSlice is what its Set makes of it.
SetValue(f, old, v) == IF f = "Users" THEN StringSlice_Set(old, v) ELSE v

\* flags.Parse(args) of a leaf command.
RECURSIVE ParseArgs(_, _, _)
ParseArgs(fs, opts, a) ==
    IF a = <<>> \/ Head(a).k = "name"
    THEN [opts |-> opts, rest |-> a, err |-> ""]
    ELSE IF Head(a).name \notin DOMAIN fs
    THEN [opts |-> opts, rest |-> a,
          err |-> IF Head(a).name \in {"h", "help"} THEN "flag: help requested"
                  ELSE "flag provided but not defined"]
    ELSE LET f == fs[Head(a).name]
         IN ParseArgs(fs, [opts EXCEPT ![f] = SetValue(f, opts[f], Head(a).val)],
                      Tail(a))

\* What xml.Decoder.Decode stores in the options of the command from the
\* elements of the options file: a slice gets the elements appended.
DecodeOptions(opts, elems) ==
    [f \in DOMAIN opts |->
        IF Tag(f) \notin DOMAIN elems THEN opts[f]
        ELSE IF f = "Users" THEN opts[f] \o elems[Tag(f)]
        ELSE elems[Tag(f)]]

\* The values the options file gives, and the flags of the command line.
ElemVal(f) ==
    CASE f \in {"DryRun", "Recursive", "MatchSubstrings"} -> "true"
      [] f = "ProjectCount" -> "5"
      [] f = "Users" -> <<"ann", "bob">>
      [] f \in {"ApproversFileName", "OutputFileName"} -> "users.xml"
      [] f = "CreatedAfter" -> "2024-01-31"
      [] OTHER -> "file-" \o Tag(f)
ElemChoices(c) ==
    {[t \in {Tag(f) : f \in S} |-> ElemVal(CHOOSE f \in S : Tag(f) = t)] :
        S \in SetsUpTo(OptionsOf(c), MaxElems)}
Settings(c) ==
    CASE c = "project delete" ->
           {Flag("dry-run", "false"), Flag("n", "true"), Flag("group", "cli-group"),
            Flag("group", ""), Flag("r", "true")}
      [] c = "projects create-random" ->
           {Flag("dry-run", "false"), Flag("n", "true"),
            Flag("parent-group", "cli-parent"), Flag("project-base-name", "cli-base"),
            Flag("project-count", "3"), Flag("project-count", "0"), Flag("h", "true")}
      [] c \in {"projects list", "projects approval-rules list"} ->
           {Flag("expr", "cli-expr"), Flag("group", "cli-group"), Flag("group", ""),
            Flag("recursive", "true")}
      [] c = "projects approval-rules update" ->
           {Flag("approvers", "users.xml"), Flag("approvers", "-"),
            Flag("approvers", ""), Flag("dry-run", "false"), Flag("dry-run", "true"),
            Flag("n", "true"), Flag("group", "cli-group"), Flag("group", "")}
      [] OTHER ->
           {Flag("users", <<"bob">>), Flag("users", <<"ann", " bob">>),
            Flag("users", <<"cat ">>), Flag("out", "users.xml"), Flag("o", "-"),
            Flag("match-substrings", "true")}

\* The users of the server and of the users file: a user may have changed
\* their username since the file was written.
XmlUser(id, name) == [ID |-> id, Username |-> name]
KnownUsers == {XmlUser(1, "ann"), XmlUser(1, "anna"), XmlUser(2, "bob"),
               XmlUser(3, "ann")}
UsersFiles ==
    {[state |-> "missing", users |-> <<>>], [state |-> "malformed", users |-> <<>>]}
    \cup {[state |-> "ok", users |-> us] :
            us \in {q \in Arrangements(KnownUsers, MaxUsers) :
                      \A i, j \in 1..Len(q) :
                          i # j => q[i].ID # q[j].ID /\ q[i].Username # q[j].Username}}

\* ReadUsers(fname).
ReadUsers(file, fname) ==
    IF fname \in {"", "-"} THEN [users |-> <<>>, err |-> "invalid file name"]
    ELSE IF file.state = "missing" THEN [users |-> <<>>, err |-> "open"]
    ELSE IF file.state = "malformed" THEN [users |-> <<>>, err |-> "decode"]
    ELSE [users |-> file.users, err |-> ""]

\* CountUsers(users)[name] > 0.
CountUsers(users, name) == Cardinality({i \in 1..Len(users) : users[i].Username = name})

\* AppendUsersFromFile(fname, newXmlUsers): the users of the file that
\* CountUsers does not find among the new users, then the new users; the
\* new users alone if the file cannot be read.
AppendUsersFromFile(file, fname, newXmlUsers) ==
    LET r == ReadUsers(file, fname)
    IN IF r.err # "" THEN newXmlUsers
       ELSE SelectSeq(r.users, LAMBDA u : CountUsers(newXmlUsers, u.Username) = 0)
            \o newXmlUsers

\* WriteUsers(fname, glUsers): the file afterwards, and the error.  The
\* new file is written aside and moved into place, which may fail.
WriteUsers(file, fname, users, ioFails) ==
    IF fname = "" THEN [file |-> file, err |-> "invalid file name"]
    ELSE IF \E i \in 1..Len(users) : CountUsers(users, users[i].Username) > 1
    THEN [file |-> file, err |-> "WriteUsers: duplicate users detected"]
    ELSE IF fname = "-" THEN [file |-> file, err |-> ""]
    ELSE IF ioFails THEN [file |-> file, err |-> "WriteUsers: i/o"]
    ELSE [file |-> [state |-> "ok", users |-> AppendUsersFromFile(file, fname, users)],
          err |-> ""]

\* The state in which Run of the command c is called.
CmdInit ==
    /\ rpc \in Commands
    /\ \E e \in ElemChoices(rpc) :
         /\ optFiles = ("options.xml" :> e)
         /\ allOpts = DecodeOptions([f \in OptionsOf(rpc) |-> ZeroValue(f)], e)
    /\ rest \in SeqsUpTo(Settings(rpc), MaxArgs)
    /\ cmdline = <<>>
    /\ globalOpts = NoPeek
    /\ subcmds = <<>>
    /\ rerr = ""
    /\ steps = <<>>
    /\ out = <<>>
    /\ usersXml \in IF rpc \in {"users list", "projects approval-rules update"}
                   THEN UsersFiles ELSE {[state |-> "missing", users |-> <<>>]}
    /\ glUsers = <<>>
    /\ authXml = <<>>
    /\ authInfo = NoAuthInfo

\* The command-line parse every Run begins with; what a Run does when it
\* fails.
Parsed(c) == ParseArgs(FlagsOf(c), allOpts, rest)
RunSteps(c) ==
    <<Step("Run", c, rest, {}),
      Step("Parse", c, rest, Consumed(FlagsOf(c), rest, Parsed(c)))>>
ParseFails(c) ==
    /\ NodeUsage(c, "stderr", Parsed(c).err)
    /\ steps' = Append(steps, Step("Run", c, rest, {}))
    /\ UNCHANGED <<allOpts, rest, usersXml, glUsers>>
\* Run returns the error of its validation, which main prints.
Invalid(c, err) ==
    /\ Finish("returned", err)
    /\ MainPrintsError(<<>>)
    /\ steps' = steps \o RunSteps(c)
    /\ UNCHANGED <<usersXml, glUsers>>
\* Run returns what the call to gitlab_util returns: nil or its error.
Calls(c, fn, args) ==
    /\ steps' = steps \o RunSteps(c) \o <<Step(fn, c, args, {})>>
    /\ \/ Finish("returned", "nil") /\ UNCHANGED out
       \/ Finish("returned", fn) /\ MainPrintsError(<<>>)
    /\ UNCHANGED <<usersXml, glUsers>>

\* Variant: the group is not validated.
GroupCommand_Run_NoValidation(c, fn) ==
    /\ LET r == Parsed(c)
           o == r.opts
       IN IF r.err # "" THEN ParseFails(c)
          ELSE /\ allOpts' = o
               /\ rest' = r.rest
               /\ Calls(c, fn, [f \in DOMAIN o |-> o[f]])
    /\ UNCHANGED <<cmdline, optFiles, globalOpts, subcmds, authXml, authInfo>>
    /\ UNCHANGED travVars

\* Run of the commands that list or change the projects of a group.
GroupCommand_Run(c, fn) ==
    /\ LET r == Parsed(c)
           o == r.opts
       IN IF r.err # "" THEN ParseFails(c)
          ELSE /\ allOpts' = o
               /\ rest' = r.rest
               /\ IF o["Group"] = "" THEN Invalid(c, "group not set")
                  ELSE Calls(c, fn, [f \in DOMAIN o |-> o[f]])
    /\ UNCHANGED <<cmdline, optFiles, globalOpts, subcmds, authXml, authInfo>>
    /\ UNCHANGED travVars

\* ProjectDeleteCommand.Run, called with the resolved options.
ProjectDeleteCommand_Run_Alone ==
    /\ rpc = "project delete"
    /\ GroupCommand_Run("project delete", "DeleteProjects")
ProjectsListCommand_Run ==
    /\ rpc = "projects list"
    /\ GroupCommand_Run("projects list", "ForEachProjectInGroup")
ProjectsApprovalRulesListCommand_Run ==
    /\ rpc = "projects approval-rules list"
    /\ GroupCommand_Run("projects approval-rules list", "ForEachProjectInGroup")

ProjectsCreateRandomCommand_Run ==
    /\ rpc = "projects create-random"
    /\ LET c == "projects create-random"
           r == Parsed(c)
           o == r.opts
       IN IF r.err # "" THEN ParseFails(c)
          ELSE /\ allOpts' = o
               /\ rest' = r.rest
               /\ IF o["ParentGroup"] = "" THEN Invalid(c, "invalid parent group")
                  ELSE IF o["ProjectBaseName"] = ""
                  THEN Invalid(c, "invalid project base name")
                  ELSE IF o["ProjectCount"] = "0"
                  THEN Invalid(c, "invalid project count")
                  ELSE Calls(c, "CreateRandomProjects", o)
    /\ UNCHANGED <<cmdline, optFiles, globalOpts, subcmds, authXml, authInfo>>
    /\ UNCHANGED travVars

\* ProjectsApprovalRulesUpdateCommand.Run: when ReadUsers fails, nil is
\* returned.
ProjectsApprovalRulesUpdateCommand_Run ==
    /\ rpc = "projects approval-rules update"
    /\ LET c == "projects approval-rules update"
           r == Parsed(c)
           o == r.opts
           u == ReadUsers(usersXml, o["ApproversFileName"])
       IN IF r.err # "" THEN ParseFails(c)
          ELSE /\ allOpts' = o
               /\ rest' = r.rest
               /\ IF o["ApproversFileName"] = ""
                  THEN Invalid(c, "approvers file name not set")
                  ELSE IF o["Group"] = "" THEN Invalid(c, "group not set")
                  ELSE IF u.err # ""
                  THEN /\ Finish("returned", "nil")
                       /\ steps' = steps \o RunSteps(c)
                                     \o <<Step("ReadUsers", c, o["ApproversFileName"], {})>>
                       /\ UNCHANGED <<out, usersXml, glUsers>>
                  ELSE Calls(c, "ForEachProjectInGroup",
                             [opts |-> o, approverIDs |-> IDsOf(u.users)])
    /\ UNCHANGED <<cmdline, optFiles, globalOpts, subcmds, authXml, authInfo>>
    /\ UNCHANGED travVars

\* What the lookups of a run can find: users of the server, of which no
\* two have the same ID or the same username; two lookups may find the
\* same user.
Lookups == {q \in SeqsUpTo(KnownUsers, MaxUsers) :
              \A i, j \in 1..Len(q) :
                  q[i] # q[j] => q[i].ID # q[j].ID /\ q[i].Username # q[j].Username}

\* UsersListCommand.Run: every entry of the users option is looked up, or
\* all users are listed if it has none; what was found is written to the
\* output file if one is named.
UsersListCommand_Run ==
    /\ rpc = "users list"
    /\ LET c == "users list"
           r == Parsed(c)
           o == r.opts
           looks == IF Len(o["Users"]) > 0
                    THEN [i \in 1..Len(o["Users"]) |->
                            Step("FindUsers", c, o["Users"][i], {})]
                    ELSE <<Step("ForEachUser", c, "", {})>>
       IN IF r.err # "" THEN ParseFails(c)
          ELSE /\ allOpts' = o
               /\ rest' = r.rest
               /\ \/ \* a lookup fails
                     /\ \E n \in 1..Len(looks) :
                           steps' = steps \o RunSteps(c) \o SubSeq(looks, 1, n)
                     /\ Finish("returned", IF Len(o["Users"]) > 0
                                           THEN "unable to find user" ELSE "ForEachUser")
                     /\ MainPrintsError(<<>>)
                     /\ UNCHANGED <<usersXml, glUsers>>
                  \/ \E q \in Lookups, ioFails \in BOOLEAN :
                        LET w == WriteUsers(usersXml, o["OutputFileName"], q, ioFails)
                        IN /\ glUsers' = q
                           /\ IF o["OutputFileName"] = ""
                              THEN /\ steps' = steps \o RunSteps(c) \o looks
                                   /\ Finish("returned", "nil")
                                   /\ UNCHANGED <<out, usersXml>>
                              ELSE /\ steps' = steps \o RunSteps(c) \o looks
                                        \o <<Step("WriteUsers", c,
                                                [fname |-> o["OutputFileName"],
                                                 file |-> usersXml], {})>>
                                   /\ usersXml' = w.file
                                   /\ IF w.err = ""
                                      THEN Finish("returned", "nil") /\ UNCHANGED out
                                      ELSE Finish("returned", w.err) /\ MainPrintsError(<<>>)
    /\ UNCHANGED <<cmdline, optFiles, globalOpts, subcmds, authXml, authInfo>>
    /\ UNCHANGED travVars

\* ------------------------------------------------------------ specification
vars == <<travVars, optVars, fileVars>>

Init == TravInit /\ OptIdle /\ FilesIdle

Next ==
    \/ CallForEachProjectInGroup
    \/ CallGetAllProjects
    \/ CallDeleteProjects
    \/ CallForEachApprovalRuleInProject
    \/ CallCreateRandomProjects
    \/ CallApprovalRulesUpdate
    \/ CallApprovalRulesList
    \/ CreateRandomProjects
    \/ CallForEachUser
    \/ CallForEachProjectInGroupAfterGetAll
    \/ FindExactGroup
    \/ Compile
    \/ ListGroupProjects
    \/ VisitProject
    \/ NextProjectPage
    \/ DeleteProjects
    \/ GetProjectApprovalRules
    \/ VisitRule
    \/ NextRulePage
    \/ ListUsers
    \/ VisitUser
    \/ NextUserPage

Spec == Init /\ [][Next]_vars

\* The program is sequential: a call in progress takes its next step.
SpecFair == Spec /\ WF_vars(Next)

\* The traversal variables while a command line is being resolved.
TravIdle ==
    /\ groupOrder = <<1, 2, 3, 4, 5>>
    /\ server = [gid \in GroupIDs |-> <<>>]
    /\ server0 = server
    /\ call = NoCall
    /\ pc = "off"
    /\ page = 0
    /\ items = <<>>
    /\ idx = 0
    /\ nextPage = 0
    /\ g = NoGroup
    /\ result = <<>>
    /\ didx = 0
    /\ trace = <<>>
    /\ ret = "none"
    /\ collected = NoCollected

InitOptions == TravIdle /\ OptInit /\ FilesIdle

NextOptions ==
    \/ Run_PeakAtGlobalOptions
    \/ Run_HelpOrVersion
    \/ Run_CreateGitlabClient
    \/ generateSubcmds
    \/ Run_LoadFromXMLFile
    \/ Run_Parse
    \/ Run_DispatchSubcommand
    \/ ProjectCommand_Run
    \/ ProjectListCommand_Run
    \/ ProjectDeleteCommand_Run
    \/ ProjectCreateRandomCommand_Run

SpecOptions == InitOptions /\ [][NextOptions]_vars

\* The leaf commands run with the options the resolution left them.
InitCommands == TravIdle /\ CmdInit

NextCommands ==
    \/ ProjectDeleteCommand_Run_Alone
    \/ ProjectsListCommand_Run
    \/ ProjectsApprovalRulesListCommand_Run
    \/ ProjectsCreateRandomCommand_Run
    \/ ProjectsApprovalRulesUpdateCommand_Run
    \/ UsersListCommand_Run

SpecCommands == InitCommands /\ [][NextCommands]_vars

\* authinfo.Load on the file of the credentials.
InitAuth == TravIdle /\ OptIdle /\ AuthInit

NextAuth == Load

SpecAuth == InitAuth /\ [][NextAuth]_vars


\* ================================================================== claims
ProjectFns == {"ForEachProjectInGroup", "GetAllProjects", "DeleteProjects"}
Iterators == {"ForEachProjectInGroup", "ForEachApprovalRuleInProject",
              "ForEachUser"}
DeleteOps == {"DeleteProject", "DryRunDelete"}

Visits == ArgsOf(trace, {"visit"})
Deletes == ArgsOf(trace, DeleteOps)
PagesFetched == ArgsOf(trace, FetchOps)
AllVisitsContinue == \A i \in 1..Len(trace) : trace[i].op = "visit" => trace[i].res = 1
NoFailure == \A i \in 1..Len(trace) : trace[i].res # -1

\* The items the listing of the call in progress ranges over, as the server
\* held them when the call started, and those of them the filter selects.
Listed ==
    CASE call.fn \in ProjectFns -> GroupProjects(server0, g.ID, call.recursive)
      [] call.fn = "ForEachApprovalRuleInProject" -> RuleIDs
      [] OTHER -> SearchUsers(call.user)
Matching ==
    IF call.fn \in ProjectFns
    THEN SelectSeq(Listed, LAMBDA p : MatchString(call.expr, PathWithNamespace(p)))
    ELSE Listed
NumPages(n) == IF n = 0 THEN 1 ELSE (n + PerPage - 1) \div PerPage

\* C1: DeleteProjects deletes the collected projects in collected order, no
\* project twice; when it returns nil it has deleted, once each, exactly the
\* projects of the group that the filter selects, as the group held them
\* when the call started, and without dry-run none of them is left.
C1_DeleteEachCollectedOnce ==
    call.fn = "DeleteProjects" =>
        /\ Len(Deletes) <= Len(result)
        /\ Deletes = SubSeq(result, 1, Len(Deletes))
        /\ \A i, j \in 1..Len(Deletes) : i # j => Deletes[i] # Deletes[j]
        /\ (pc = "done" /\ ret = "nil") =>
               /\ Deletes = Matching
               /\ ~call.dryRun =>
                      Range(server[g.ID]) = Range(server0[g.ID]) \ Range(Matching)

C1_Witness ==
    /\ call.fn = "DeleteProjects"
    /\ pc = "done"
    /\ ret = "nil"
    /\ ~call.dryRun
    /\ Len(Deletes) = 3
    /\ Len(PagesFetched) = 2

\* C2: in DeleteProjects no page of the project listing is requested and no
\* visitor runs once a delete has been issued.
C2_NoFetchAfterDelete ==
    call.fn = "DeleteProjects" =>
        \A i, j \in 1..Len(trace) :
            (i < j /\ trace[i].op \in DeleteOps) =>
                trace[j].op \notin {"ListGroups", "ListGroupProjects", "visit"}

C2_Witness ==
    /\ call.fn = "DeleteProjects"
    /\ Len(PagesFetched) >= 2
    /\ Len(Deletes) >= 2
    /\ trace[Len(trace)].op = "DeleteProject"

\* C5: an iteration whose visitor always continues and whose requests all
\* succeed visits every selected item exactly once, in the order of the
\* listing, and requests the pages 1, 2, ... up to the last one.
C5_VisitsEveryItemInOrder ==
    (pc = "done" /\ ret = "nil" /\ call.fn \in Iterators /\ AllVisitsContinue) =>
        /\ Visits = Matching
        /\ PagesFetched = [i \in 1..NumPages(Len(Listed)) |-> i]

C5_Witness ==
    /\ pc = "done"
    /\ ret = "nil"
    /\ call.fn = "ForEachProjectInGroup"
    /\ AllVisitsContinue
    /\ Len(Visits) = 3
    /\ Len(PagesFetched) = 2

\* C6: a visitor answer (false, nil) is the last event of the iteration,
\* which has then returned nil; no page is requested after a response with
\* NextPage = 0.
C6_StopIsPermanent ==
    call.fn \in Iterators =>
        \A i \in 1..Len(trace) :
            /\ (trace[i].op = "visit" /\ trace[i].res = 0) =>
                   (i = Len(trace) /\ pc = "done" /\ ret = "nil")
            /\ (trace[i].op \in FetchOps /\ trace[i].res = 0) =>
                   \A j \in (i + 1)..Len(trace) : trace[j].op \notin FetchOps

C6_Witness ==
    /\ call.fn = "ForEachProjectInGroup"
    /\ pc = "done"
    /\ Len(trace) > 0
    /\ trace[Len(trace)].op = "visit"
    /\ trace[Len(trace)].res = 0
    /\ idx < Len(items)
    /\ nextPage # 0

\* C7: a failed request or a visitor error is the last event of the
\* iteration, which has then returned an error.
C7_ErrorAborts ==
    call.fn \in Iterators =>
        \A i \in 1..Len(trace) :
            trace[i].res = -1 => (i = Len(trace) /\ pc = "done" /\ IsErr(ret))

C7_Witness ==
    /\ call.fn = "ForEachProjectInGroup"
    /\ pc = "done"
    /\ IsErr(ret)
    /\ Len(trace) > 0
    /\ trace[Len(trace)] = Ev("ListGroupProjects", 2, -1)
    /\ Len(Visits) = 2

\* C8: after GetAllProjects with the empty expression, ForEachProjectInGroup
\* on the same group with expression p (visitor always continuing) visits
\* the collected projects whose full path matches p, in collected order.
C8_FilterSelectsByFullPath ==
    (/\ collected.valid
     /\ pc = "done"
     /\ ret = "nil"
     /\ AllVisitsContinue) =>
        Visits = SelectSeq(collected.result,
                           LAMBDA p : MatchString(call.expr, PathWithNamespace(p)))

C8_Witness ==
    /\ collected.valid
    /\ pc = "done"
    /\ ret = "nil"
    /\ call.expr = re_a_end
    /\ Range(collected.result) = {1, 2, 3}
    /\ Visits = <<1>>

\* C9: when no group of the server has the requested name as its full path,
\* the call lists no project and visits nothing, and unless the group search
\* itself failed it ends with the not-found error of FindExactGroup.
C9_NoExactMatchIsNotFound ==
    (call.fn \in ProjectFns /\ ~\E gid \in GroupIDs : Group(gid).FullPath = call.group) =>
        /\ g = NoGroup
        /\ \A i \in 1..Len(trace) : trace[i].op = "ListGroups"
        /\ (pc = "done" /\ NoFailure) =>
               ret = "FindExactGroup: could not find exact match"

C9_Witness ==
    /\ call.fn = "ForEachProjectInGroup"
    /\ call.group = s_g
    /\ pc = "done"
    /\ ret = "FindExactGroup: could not find exact match"
    /\ Len(trace) = 2
    /\ Len(SearchGroups(call.group)) = 3

\* The groups of the search result whose full path is the requested name.
ExactGroups == SelectSeq(SearchGroups(call.group), LAMBDA x : x.FullPath = call.group)

NameIdx == {i \in DOMAIN cmdline : cmdline[i].k = "name"}
MaxOf(S) == CHOOSE m \in S : \A n \in S : n <= m
MinOf(S) == CHOOSE m \in S : \A n \in S : m <= n
GlobalSegment ==
    IF NameIdx = {} THEN cmdline ELSE SubSeq(cmdline, 1, MinOf(NameIdx) - 1)
LeafSegment ==
    LET after == {i \in NameIdx : Cardinality({j \in NameIdx : j <= i}) = 2}
        next == {i \in NameIdx : Cardinality({j \in NameIdx : j <= i}) = 3}
    IN IF after = {} THEN <<>>
       ELSE SubSeq(cmdline, MaxOf(after) + 1,
                   IF next = {} THEN Len(cmdline) ELSE MaxOf(next) - 1)
CmdPath == [i \in 1..Cardinality(NameIdx) |->
              SelectSeq(cmdline, LAMBDA t : t.k = "name")[i].name]
LeafNamed ==
    IF Len(CmdPath) >= 2 /\ CmdPath[1] = "project" /\ CmdPath[2] \in Leaves
    THEN CmdPath[2] ELSE ""
LeafFields(leaf) ==
    CASE leaf = "list" -> ListFields
      [] leaf = "delete" -> DeleteFields
      [] leaf = "create-random" -> CreateRandomFields
      [] OTHER -> {}

\* The flags the usage texts and the README give for a field.
OptionFlags(f) ==
    CASE f = "AuthFileName" -> {"auth"}
      [] f = "BaseURL" -> {"base-url"}
      [] f = "Help" -> {"h", "help"}
      [] f = "OptionsFileName" -> {"options"}
      [] f = "ShowOptions" -> {"show-options"}
      [] f = "Version" -> {"v", "version"}
      [] f \in {"list.Expr", "delete.Expr"} -> {"expr"}
      [] f \in {"list.Group", "delete.Group"} -> {"group"}
      [] f \in {"list.Recursive", "delete.Recursive"} -> {"r", "recursive"}
      [] f \in {"delete.DryRun", "create-random.DryRun"} -> {"n", "dry-run"}
      [] f = "create-random.ParentGroup" -> {"parent-group"}
      [] f = "create-random.ProjectBaseName" -> {"project-base-name"}
      [] OTHER -> {"project-count"}

SegmentOf(f) == IF f \in GlobalFields THEN GlobalSegment ELSE LeafSegment
Supplied(f) == {i \in DOMAIN SegmentOf(f) : SegmentOf(f)[i].name \in OptionFlags(f)}

\* The options file in effect: named on the command line, or the default.
CliOptionsFileName ==
    IF Supplied("OptionsFileName") = {} THEN "options.xml"
    ELSE GlobalSegment[MaxOf(Supplied("OptionsFileName"))].val
FileInEffect == optFiles[CliOptionsFileName]

\* Command line over options file over default.
Expected(f) ==
    IF Supplied(f) # {} THEN SegmentOf(f)[MaxOf(Supplied(f))].val
    ELSE IF XMLElement(f) \in DOMAIN FileInEffect THEN FileInEffect[XMLElement(f)]
    ELSE Default(f)

\* Every flag is where the usage texts put it: global flags before the
\* first name, flags of the leaf command after its name, none in between.
WellPlaced ==
    \A i \in DOMAIN cmdline :
        cmdline[i].k = "flag" =>
            \/ /\ \A j \in NameIdx : i < j
               /\ \E f \in GlobalFields : cmdline[i].name \in OptionFlags(f)
            \/ /\ Cardinality({j \in NameIdx : j < i}) = 2
               /\ \E f \in LeafFields(LeafNamed) : cmdline[i].name \in OptionFlags(f)

Peeked == rpc \notin {"off", "Run"} /\ globalOpts # NoPeek
LeafParsed ==
    \/ rpc = "ran"
    \/ rpc = "returned" /\ rerr = "required option not set"

\* Wherever the resolution gets to, the values it holds are command line
\* over options file over default.
ResolvedValuesWhereParsed ==
    /\ Peeked => \A f \in GlobalFields : globalOpts[f] = Expected(f)
    /\ LeafParsed =>
         \A f \in GlobalFields \cup LeafFields(LeafNamed) : allOpts[f] = Expected(f)

\* C3: every scalar option resolves to the command-line value if its flag
\* is supplied, else to the value of its element in the options file, else
\* to its default: no documented flag is rejected as undefined, the peeked
\* global options hold the resolved values, and when the leaf command has
\* parsed its flags the global fields and the fields of that leaf hold the
\* resolved values.
C3_CliOverFileOverDefault ==
    /\ WellPlaced => rerr # "exit 1: flag provided but not defined"
    /\ ResolvedValuesWhereParsed

\* The run C3 fails on: "project delete" given its documented dry-run flag.
C3_DryRunFlagRejected ==
    /\ LeafNamed = "delete"
    /\ \E i \in DOMAIN LeafSegment : LeafSegment[i].name \in {"n", "dry-run"}
    /\ rpc = "exited"
    /\ rerr = "exit 1: flag provided but not defined"

\* C4: the name of the options file comes from the command line or the
\* default only: whatever the loaded file contains, the peeked
\* OptionsFileName is the command-line value or the default, the
\* OptionsFileName of the full options is still the default after the file
\* is loaded, and is the command-line value or the default after the
\* command line is parsed.
C4_FileCannotSetOptionsFileName ==
    /\ Peeked => globalOpts["OptionsFileName"] = CliOptionsFileName
    /\ rpc \in {"off", "Run", "peeked", "auth", "generate", "load", "parse"} =>
         allOpts["OptionsFileName"] = Default("OptionsFileName")
    /\ rpc \in {"parsed", "project", "ran"} \cup {"project " \o l : l \in Leaves} =>
         allOpts["OptionsFileName"] = CliOptionsFileName

\* The file that was loaded holds an element named after the option, and
\* another option was taken from that file.
C4_Witness ==
    /\ rpc = "parse"
    /\ "global-options/options-file-name" \in DOMAIN FileInEffect
    /\ "global-options/base-url" \in DOMAIN FileInEffect
    /\ allOpts["BaseURL"] = FileVal("global-options/base-url")
    /\ globalOpts["OptionsFileName"] = "alt.xml"

\* ------------------------------------------------------- claims C11 - C20
OpsOf(tr) == {tr[i].op : i \in 1..Len(tr)}

\* C11: when the filter expression does not compile, ForEachProjectInGroup,
\* GetAllProjects and DeleteProjects request no page of projects, call no
\* visitor and issue no delete, and what they return is an error.
C11_InvalidFilterIsError ==
    (call.fn \in ProjectFns /\ ~call.expr.valid) =>
        /\ OpsOf(trace) \subseteq {"ListGroups"}
        /\ pc = "done" => IsErr(ret)
        /\ server = server0

\* DeleteProjects on a group that resolves, with an expression that does not
\* compile, has returned the error of regexp.Compile.
C11_Witness ==
    /\ call.fn = "DeleteProjects"
    /\ ~call.dryRun
    /\ ~call.expr.valid
    /\ g # NoGroup
    /\ pc = "done"
    /\ ret = "ForEachProjectInGroup: regexp"

\* The bulk operations, the requests that change the service, and the
\* reports a dry run makes in their place.
Mutators == {"DeleteProjects", "CreateRandomProjects", "ApprovalRulesUpdate"}
MutatingOps == {"DeleteProject", "CreateProject", "UpdateProjectApprovalRule"}
ReportOps == {"DryRunDelete", "DryRunCreate", "DryRunUpdate"}
Reports == ArgsOf(trace, ReportOps)

\* The item each mutating request of the trace was for, in order.
Attempts ==
    LET sel == SelectSeq(trace, LAMBDA e : e.op \in MutatingOps)
    IN [i \in 1..Len(sel) |->
          IF sel[i].op = "UpdateProjectApprovalRule"
          THEN [project |-> sel[i].arg.project, rule |-> sel[i].arg.rule]
          ELSE sel[i].arg]

\* The items of the batch of the call in progress, in order: the selected
\* projects of the group as it was when the call started, the numbers of
\* the projects to create, or every rule of every selected project.
SelectedProjects ==
    SelectSeq(GroupProjects(server0, g.ID, call.recursive),
              LAMBDA p : MatchString(call.expr, PathWithNamespace(p)))
BatchItems ==
    CASE call.fn = "DeleteProjects" -> SelectedProjects
      [] call.fn = "CreateRandomProjects" -> [i \in 1..call.count |-> i - 1]
      [] OTHER ->
           [k \in 1..(Len(SelectedProjects) * Len(RuleIDs)) |->
              [project |-> SelectedProjects[((k - 1) \div Len(RuleIDs)) + 1],
               rule |-> RuleIDs[((k - 1) % Len(RuleIDs)) + 1]]]
NoDuplicates(q) == \A i, j \in 1..Len(q) : q[i] = q[j] => i = j

\* C12: with dry-run true, project delete, create-random and approval-rules
\* update send no delete, create or update request and leave the service
\* as it was, report no item twice, and when they return nil they have
\* reported every item of the batch once, in order.
C12_DryRunIssuesNoMutation ==
    (call.fn \in Mutators /\ call.dryRun) =>
        /\ OpsOf(trace) \cap MutatingOps = {}
        /\ server = server0
        /\ NoDuplicates(Reports)
        /\ (pc = "done" /\ ret = "nil") => Reports = BatchItems

\* A dry run of the update over at least two projects has ended.
C12_Witness ==
    /\ call.fn = "ApprovalRulesUpdate"
    /\ call.dryRun
    /\ pc = "done"
    /\ ret = "nil"
    /\ Len(Reports) >= 2 * Len(RuleIDs)

\* Every request of the call in progress other than a mutating one succeeded.
ListingsSucceeded ==
    \A i \in 1..Len(trace) :
        trace[i].op \in {"ListGroups", "ListGroupProjects",
                         "GetProjectApprovalRules"} => trace[i].res # -1

C14_UpdatePreservesOtherFields ==
    \A i \in 1..Len(trace) :
        trace[i].op = "UpdateProjectApprovalRule" =>
            LET o == trace[i].arg.opts
                r == Rule(trace[i].arg.project, trace[i].arg.rule)
            IN /\ o.Name = r.Name
               /\ o.ApprovalsRequired = r.ApprovalsRequired
               /\ Len(o.GroupIDs) = Len(r.Groups)
               /\ \A k \in 1..Len(r.Groups) : o.GroupIDs[k] = r.Groups[k].ID
               /\ Len(o.ProtectedBranchIDs) = Len(r.ProtectedBranches)
               /\ \A k \in 1..Len(r.ProtectedBranches) :
                      o.ProtectedBranchIDs[k] = r.ProtectedBranches[k].ID
               /\ o.AppliesToAllProtectedBranches = r.AppliesToAllProtectedBranches
               /\ o.UserIDs = call.userIDs

\* An update was accepted for a rule that has groups, with a list of
\* approvers that differs from the users of the rule.
C14_Witness ==
    \E i \in 1..Len(trace) :
        /\ trace[i].op = "UpdateProjectApprovalRule"
        /\ trace[i].res = 1
        /\ Rule(trace[i].arg.project, trace[i].arg.rule).Groups # <<>>
        /\ trace[i].arg.opts.UserIDs = <<41, 50>>
        /\ trace[i].arg.opts.GroupIDs # <<>>

\* ------------------------------------------- resolution order and dispatch
StepsOf(ops) == {i \in DOMAIN steps : steps[i].op \in ops}
GlobalSteps == SelectSeq(steps, LAMBDA e : e.node = "")
ResolutionOrder ==
    <<"Initialize", "Run", "PeakAtGlobalOptions", "CreateGitlabClient",
      "generateSubcmds", "LoadFromXMLFile", "Parse", "DispatchSubcommand">>
Registrations == StepsOf({"Initialize", "generateSubcmds"})

\* C15: the steps of the global command are a prefix of the fixed order,
\* none repeated, reordered or left out: credentials and client, then the
\* construction of the commands, then the options file, then the command
\* line; the default of every option is registered before the file is
\* loaded, nothing is registered after it, and the file is loaded before
\* any flag is parsed into the options tree.
C15_FixedResolutionOrder ==
    /\ Len(GlobalSteps) <= Len(ResolutionOrder)
    /\ \A i \in DOMAIN GlobalSteps : GlobalSteps[i].op = ResolutionOrder[i]
    /\ \A j \in StepsOf({"LoadFromXMLFile"}) :
          /\ \A f \in Fields : \E i \in Registrations : i < j /\ f \in steps[i].wrote
          /\ \A i \in Registrations : i < j
    /\ \A k \in StepsOf({"Parse"}) : \E j \in StepsOf({"LoadFromXMLFile"}) : j < k

\* A leaf command ran with an option that has a default, is set in the
\* options file and is given again on the command line.
C15_Witness ==
    /\ rpc = "ran"
    /\ \E f \in Fields \ GlobalFields :
          /\ \E i \in StepsOf({"generateSubcmds"}) : f \in steps[i].wrote
          /\ \E j \in StepsOf({"LoadFromXMLFile"}) : f \in steps[j].wrote
          /\ \E k \in StepsOf({"Parse"}) : f \in steps[k].wrote

\* The command being run, and the flags left for it.
Dispatched == {"project"} \cup {"project " \o leaf : leaf \in Leaves}
Terminated == {"ran", "returned", "exited"}
NodeFields(node) ==
    CASE node = "" -> GlobalFields
      [] node = "project list" -> ListFields
      [] node = "project delete" -> DeleteFields
      [] node = "project create-random" -> CreateRandomFields
      [] OTHER -> {}
GivenIn(a, f) == \E i \in DOMAIN a : a[i].k = "flag" /\ a[i].name \in OptionFlags(f)

\* C16 as stated: once the global command has dispatched, no step writes
\* a field of the options tree.
C16_NeverWrittenAfterDispatch ==
    [][(rpc \in (Dispatched \cup Terminated)) => (allOpts' = allOpts)]_vars

\* C16: once the global command has dispatched, a field of the options
\* tree changes only when the command being run parses its own flags: the
\* field is one of its own and its flag is among its arguments; the
\* parent command changes none, and none changes once the process is over.
C16_WrittenOnlyByOwnParse ==
    [][(rpc \in Dispatched =>
            \A f \in Fields :
                (allOpts'[f] # allOpts[f]) => (f \in NodeFields(rpc) /\ GivenIn(rest, f)))
       /\ (rpc \in Terminated => (allOpts' = allOpts))]_vars

\* The leaf command was dispatched to and its own parse stored a value
\* that differs from what the three passes of the global command left.
C16_Witness ==
    /\ rpc = "ran"
    /\ \E i \in StepsOf({"DispatchSubcommand"}) : steps[i].node = ""
    /\ \E k \in StepsOf({"Parse"}) :
          /\ steps[k].node = "project list"
          /\ "list.Group" \in steps[k].wrote
    /\ allOpts["list.Group"] = "cli-group"

\* C17: the generators run at most once, after the client was created;
\* what they produced stays in the subcommand map; a command exists only
\* if they ran, and they do not run when help or the version is asked for.
C17_GeneratorsOnceAfterClient ==
    /\ Cardinality(StepsOf({"generateSubcmds"})) <= 1
    /\ \A i \in StepsOf({"generateSubcmds"}) :
          \E j \in StepsOf({"CreateGitlabClient"}) : j < i
    /\ StepsOf({"generateSubcmds"}) # {} => subcmds = [n \in Generators |-> Runner(n)]
    /\ (\E n \in DOMAIN subcmds : subcmds[n] # NilRunner) =>
          StepsOf({"generateSubcmds"}) # {}
    /\ Peeked /\ (globalOpts["Help"] = "true" \/ globalOpts["Version"] = "true") =>
          StepsOf({"generateSubcmds"}) = {}

\* The generated command ran a leaf command to its end.
C17_Witness ==
    /\ rpc = "ran"
    /\ Cardinality(StepsOf({"generateSubcmds"})) = 1
    /\ subcmds["project"] = Runner("project")

\* C18: whenever the global usage is printed, the names on it are the
\* sorted keys of the generator map, and printing constructs no command:
\* unless the generators ran, the subcommand map holds no command.
C18_UsageNamesAreGeneratorKeys ==
    /\ \A i \in DOMAIN out :
          out[i].usage = "" => out[i].names = SortedCommandNames(Generators)
    /\ StepsOf({"generateSubcmds"}) = {} =>
          \A n \in DOMAIN subcmds : subcmds[n] = NilRunner

\* The usage was printed after the generators had run.
C18_Witness ==
    /\ \E i \in DOMAIN out : out[i].usage = "" /\ out[i].stream = "stderr"
    /\ StepsOf({"generateSubcmds"}) # {}
    /\ subcmds = [n \in Generators |-> Runner(n)]

ChildrenOf(node) ==
    CASE node = "" -> Generators
      [] node = "project" -> Leaves
      [] OTHER -> {}
ChildPath(node, name) == IF node = "" THEN name ELSE node \o " " \o name
OwnFlagNames(node) == UNION {OptionFlags(f) : f \in NodeFields(node)}
LeadLen(a) ==
    IF \E i \in DOMAIN a : a[i].k = "name"
    THEN MinOf({i \in DOMAIN a : a[i].k = "name"}) - 1
    ELSE Len(a)

\* C19: a command that parses its arguments takes the leading flags, all
\* of its own flag set, stores only its own fields, and goes on with what
\* follows them; a command whose arguments begin with a flag that is not
\* its own parses and dispatches nothing; the child named first is the
\* one run, once, with exactly the arguments after its name; a leaf
\* command runs its logic and nothing follows it.
C19_DispatchRunsNamedChildWithRest ==
    \A i \in DOMAIN steps :
        LET e == steps[i]
        IN /\ e.op = "Parse" =>
                /\ e.wrote \subseteq NodeFields(e.node)
                /\ \A k \in 1..LeadLen(e.args) : e.args[k].name \in OwnFlagNames(e.node)
                /\ i < Len(steps) =>
                      /\ steps[i + 1].node = e.node
                      /\ steps[i + 1].op = IF ChildrenOf(e.node) = {} THEN "Logic"
                                           ELSE "DispatchSubcommand"
                      /\ steps[i + 1].args =
                           SubSeq(e.args, LeadLen(e.args) + 1, Len(e.args))
           /\ (/\ e.op = "Run"
               /\ \E k \in 1..LeadLen(e.args) : e.args[k].name \notin OwnFlagNames(e.node)) =>
                /\ rpc = "exited"
                /\ \A j \in (i + 1)..Len(steps) :
                      steps[j].op = "PeakAtGlobalOptions" /\ steps[j].wrote = {}
           /\ (e.op = "DispatchSubcommand" /\ e.args # <<>>
                 /\ e.args[1].name \in ChildrenOf(e.node)) =>
                IF i = Len(steps)
                THEN rpc = ChildPath(e.node, e.args[1].name) /\ rest = Tail(e.args)
                ELSE steps[i + 1] =
                       Step("Run", ChildPath(e.node, e.args[1].name), Tail(e.args), {})
           /\ (e.op = "Run" /\ e.node # "") =>
                /\ i > 1
                /\ steps[i - 1].op = "DispatchSubcommand"
                /\ steps[i - 1].args # <<>>
                /\ e.node = ChildPath(steps[i - 1].node, steps[i - 1].args[1].name)
                /\ e.args = Tail(steps[i - 1].args)
                /\ \A j \in DOMAIN steps : steps[j].op = "Run" /\ steps[j].node = e.node => j = i
           /\ e.op = "Logic" => i = Len(steps) /\ ChildrenOf(e.node) = {}
           /\ e.op = "DispatchSubcommand" => ChildrenOf(e.node) # {}

\* The list command was run with its flag and the names after it, which
\* it left alone: the project command was not run a second time.
C19_Witness ==
    /\ rpc = "ran"
    /\ \E i \in DOMAIN steps :
          /\ steps[i] = Step("Run", "project list",
                             <<Flag("group", "cli-group"), Name("project"),
                               Name("delete")>>, {})
          /\ steps[Len(steps)] = Step("Logic", "project list",
                                      <<Name("project"), Name("delete")>>, {})
    /\ allOpts["list.Group"] = "cli-group"

\* The dispatch steps whose first argument names no child.
UnknownSubcommand ==
    {i \in StepsOf({"DispatchSubcommand"}) :
        steps[i].args # <<>> /\ steps[i].args[1].name \notin ChildrenOf(steps[i].node)}

\* C20 as stated: the error of a dispatch whose first argument names no
\* child lists the names of the children, and no child is run.
C20_UnknownSubcommandListsNames ==
    \A i \in UnknownSubcommand :
        /\ i = Len(steps)
        /\ rpc = "returned" /\ rerr = "invalid subcommand"
        /\ out # <<>>
        /\ out[Len(out)].usage = "error"
        /\ \A n \in ChildrenOf(steps[i].node) : n \in Range(out[Len(out)].names)

\* C20: a dispatch whose first argument names no child returns the error
\* "invalid subcommand", which main prints with that argument and
\* nothing else: no usage and no name of a child; no child is run.
C20_UnknownSubcommandNamesArgument ==
    \A i \in UnknownSubcommand :
        /\ i = Len(steps)
        /\ rpc = "returned" /\ rerr = "invalid subcommand"
        /\ out = <<[usage |-> "error", stream |-> "stderr",
                    names |-> <<steps[i].args[1].name>>]>>

\* The project command was given a name that none of its children has.
C20_Witness ==
    /\ UnknownSubcommand # {}
    /\ \E i \in UnknownSubcommand : steps[i].node = "project"
    /\ rerr = "invalid subcommand"

\* ------------------------------------------------------- help and version
\* The flag set of a command, and the Run steps whose parse gets to a help
\* flag: the flags before it are flags of the command.
FlagSetOf(node) ==
    CASE node = "" -> GlobalFlags
      [] node = "project" -> ProjectFlags
      [] node = "project list" -> ProjectListFlags
      [] node = "project delete" -> ProjectDeleteFlags
      [] OTHER -> ProjectCreateRandomFlags
HelpFlags == {"h", "help"}
HelpAt ==
    {i \in StepsOf({"Run"}) :
        \E k \in 1..LeadLen(steps[i].args) :
            /\ steps[i].args[k].name \in HelpFlags
            /\ \A j \in 1..(k - 1) :
                   steps[i].args[j].name \in DOMAIN FlagSetOf(steps[i].node)}

\* C21: a command run with a help flag among its own flags prints its
\* usage and the process ends with status 0; the logic of no command runs.
C21_HelpExitsZero ==
    \A i \in HelpAt :
        \/ steps[i].node = "" /\ rpc = "peeked"
        \/ /\ rpc = "exited"
           /\ rerr \in {"exit 0: usage", "exit 0: flag: help requested"}
           /\ out # <<>>
           /\ out[Len(out)].usage \in {steps[i].node, "Usage of " \o steps[i].node}
           /\ StepsOf({"Logic"}) = {}

\* What the code does with a help flag: the usage of the command is
\* printed and no logic runs; the status is 0 at the global command and at
\* a command without a Usage of its own, and 1 at every other command.
C21_HelpPrintsUsage ==
    \A i \in HelpAt :
        \/ steps[i].node = "" /\ rpc = "peeked"
        \/ /\ rpc = "exited"
           /\ out # <<>>
           /\ out[Len(out)].usage \in {steps[i].node, "Usage of " \o steps[i].node}
           /\ StepsOf({"Logic"}) = {}
           /\ rerr = IF steps[i].node = "" THEN "exit 0: usage"
                     ELSE IF HasOwnUsage(steps[i].node)
                     THEN "exit 1: flag: help requested"
                     ELSE "exit 0: flag: help requested"

\* The list command was asked for help.
C21_HelpAtLeaf ==
    /\ \E i \in HelpAt : steps[i].node = "project list"
    /\ rerr = "exit 1: flag: help requested"

VersionText == [usage |-> "version", stream |-> "stdout", names |-> <<>>]
PastVersionCheck == rpc \notin {"off", "Run", "peeked"}
NotBeyondPeek ==
    StepsOf({"CreateGitlabClient", "generateSubcmds", "LoadFromXMLFile",
             "DispatchSubcommand"}) = {}

RanCommand == IF steps # <<>> THEN steps[1].node ELSE ""
PastParse == Len(steps) >= 2 /\ steps[2].op = "Parse"

\* The options a command requires, and the error it returns for each.
RequiredOf(c) ==
    CASE c = "projects create-random" ->
           {"ParentGroup", "ProjectBaseName", "ProjectCount"}
      [] c = "projects approval-rules update" -> {"ApproversFileName", "Group"}
      [] c = "users list" -> {}
      [] OTHER -> {"Group"}
ValidationErrors ==
    {"group not set", "approvers file name not set", "invalid parent group",
     "invalid project base name", "invalid project count"}
ServiceCalls ==
    {"DeleteProjects", "ForEachProjectInGroup", "CreateRandomProjects",
     "FindUsers", "ForEachUser"}
RequiredAtZero ==
    /\ PastParse
    /\ \E f \in RequiredOf(RanCommand) : allOpts[f] = ZeroValue(f)

\* C23: when a required option of a leaf command is at its zero value after
\* the command line has been parsed, Run returns a descriptive error and no
\* call to the backing service is made.
C23_RequiredOptionAtZeroIsError ==
    RequiredAtZero =>
        /\ rpc = "returned"
        /\ rerr \in ValidationErrors
        /\ \A i \in 1..Len(steps) : steps[i].op \notin ServiceCalls

\* A group the options file gave is emptied on the command line.
C23_Witness ==
    /\ RequiredAtZero
    /\ RanCommand = "project delete"
    /\ "group" \in DOMAIN optFiles["options.xml"]
    /\ rerr = "group not set"

\* The commands that change the server, and the arguments Run was given.
Mutating == {"project delete", "projects create-random", "projects approval-rules update"}
RunArgs == steps[1].args
DryRunFlags == {"n", "dry-run"}

\* The last value the command line gives for dry-run, "" if it gives none.
RECURSIVE LastDryRun(_)
LastDryRun(a) ==
    IF a = <<>> THEN ""
    ELSE IF a[Len(a)].name \in DryRunFlags THEN a[Len(a)].val
    ELSE LastDryRun(SubSeq(a, 1, Len(a) - 1))

\* The value the claim gives dry-run: that of the command line, else that
\* of options.xml, else false.
ExpectedDryRun ==
    IF LastDryRun(RunArgs) # "" THEN LastDryRun(RunArgs)
    ELSE IF "dry-run" \in DOMAIN optFiles["options.xml"]
    THEN optFiles["options.xml"]["dry-run"]
    ELSE "false"

\* A command line that has, besides flags of the flag set of the command,
\* only -n and --dry-run.
OnlyOwnFlagsAndDryRun ==
    \A i \in 1..Len(RunArgs) :
        RunArgs[i].name \in DOMAIN FlagsOf(RanCommand) \cup DryRunFlags

\* C24: every mutating leaf command accepts --dry-run and -n as boolean
\* flags on its own command line; the value is false by default, true
\* when options.xml sets it, and that of the command line when given there.
C24_DryRunAcceptedAndResolved ==
    (steps # <<>> /\ RanCommand \in Mutating /\ OnlyOwnFlagsAndDryRun) =>
        /\ PastParse
        /\ allOpts["DryRun"] = ExpectedDryRun

\* C24, for the commands whose flag set has the dry-run flags.
C24_ResolvedWhereRegistered ==
    (steps # <<>> /\ RanCommand \in Mutating \ {"project delete"}
       /\ OnlyOwnFlagsAndDryRun) =>
        /\ PastParse
        /\ allOpts["DryRun"] = ExpectedDryRun

\* --dry-run=false on the command line of project delete, whose options
\* file sets dry-run to true: the flag is rejected.
C24_DeleteRejectsDryRun ==
    /\ steps # <<>>
    /\ RanCommand = "project delete"
    /\ RunArgs = <<Flag("dry-run", "false")>>
    /\ "dry-run" \in DOMAIN optFiles["options.xml"]
    /\ rpc = "exited"

\* --dry-run=false overrides the true of the options file in update.
C24_UpdateOverridesFile ==
    /\ PastParse
    /\ RanCommand = "projects approval-rules update"
    /\ LastDryRun(RunArgs) = "false"
    /\ "dry-run" \in DOMAIN optFiles["options.xml"]
    /\ allOpts["DryRun"] = "false"

\* ------------------------------------------- claims: approval-rules errors
\* A request for a page of the approval rules of a project failed at trace
\* index i: the traversal has returned an error and nothing follows the
\* failure but the record of what the visitor of that project returned.
RulesFetchFailedAt(i) ==
    trace[i].op = "GetProjectApprovalRules" /\ trace[i].res = -1
AbortedAt(i) ==
    /\ pc = "done"
    /\ IsErr(ret)
    /\ \A j \in (i + 1)..Len(trace) : j = i + 1 /\ trace[j].op = "visit"

\* C25: in the approval-rules list and update commands, an error while
\* fetching a page of the approval rules of a project aborts the whole
\* traversal: no further project or rule is visited and the command
\* returns that error.
C25_RulesFetchErrorAborts ==
    call.fn \in {"ApprovalRulesList", "ApprovalRulesUpdate"} =>
        \A i \in 1..Len(trace) : RulesFetchFailedAt(i) => AbortedAt(i)

\* C25, for the update command alone.
C25_UpdateAbortsOnRulesFetchError ==
    call.fn = "ApprovalRulesUpdate" =>
        \A i \in 1..Len(trace) : RulesFetchFailedAt(i) => AbortedAt(i)

\* The list command went on to the rules of the next project after the
\* rules of a project could not be fetched, and returned nil.
C25_ListGoesOn ==
    /\ call.fn = "ApprovalRulesList"
    /\ pc = "done"
    /\ ret = "nil"
    /\ \E i \in 1..Len(trace) :
          /\ RulesFetchFailedAt(i)
          /\ \E j \in (i + 1)..Len(trace) : trace[j].op = "PrintRule"

\* ------------------------------------------------------ claims: credentials
Schemes == {"basic", "oauth", "private"}
OwnTags(s) ==
    CASE s = "basic" -> {"username", "password"}
      [] s = "oauth" -> {"oauth-token"}
      [] OTHER -> {"private-token"}
FromXML(s, doc) ==
    CASE s = "basic" -> NewBasicAuthInfoFromXML(doc)
      [] s = "oauth" -> NewOAuthTokenFromXML(doc)
      [] OTHER -> NewPrivateTokenFromXML(doc)

\* The document has every field of the scheme, none of them empty; it has
\* the fields of the scheme and no other.
HoldsScheme(doc, s) ==
    doc.state = "ok" /\ \A t \in OwnTags(s) : Decoded(doc, t) # ""
HoldsOnlyScheme(doc, s) == HoldsScheme(doc, s) /\ DOMAIN doc.elems = OwnTags(s)
HoldsOnlyOtherFields(doc, s) ==
    /\ doc.state = "ok"
    /\ DOMAIN doc.elems # {}
    /\ DOMAIN doc.elems \cap OwnTags(s) = {}

\* C26: each parser of credentials succeeds only on a document that has its
\* own fields, non-empty, and returns ErrAuthInfoInvalidXML on a document
\* that has only fields of other schemes; Load on a file with exactly one
\* scheme returns that scheme.
C26_EachParserAcceptsItsOwnScheme ==
    authInfo # NoAuthInfo =>
        /\ \A s \in Schemes :
              /\ FromXML(s, authXml).err = "" => HoldsScheme(authXml, s)
              /\ HoldsOnlyOtherFields(authXml, s) =>
                    FromXML(s, authXml).err = ErrAuthInfoInvalidXML
        /\ \A s \in Schemes :
              HoldsOnlyScheme(authXml, s) =>
                  /\ authInfo.scheme = s
                  /\ authInfo.err = ""
                  /\ authInfo = FromXML(s, authXml)

\* Load returned the basic credentials of a file that has nothing else.
C26_Witness ==
    /\ HoldsOnlyScheme(authXml, "basic")
    /\ authInfo.scheme = "basic"
    /\ authInfo.val = <<"secret", "secret">>
    /\ FromXML("oauth", authXml).err = ErrAuthInfoInvalidXML

\* ------------------------------------------------------ claims: users file
\* The last step of the run, and the run of users list that wrote what it
\* found to a users file that was there and readable.
LastStep == steps[Len(steps)]
WroteToExistingFile ==
    /\ steps # <<>>
    /\ LastStep.op = "WriteUsers"
    /\ rpc = "returned"
    /\ rerr = "nil"
    /\ LastStep.args.fname # "-"
    /\ LastStep.args.file.state = "ok"
IDTwice(us) == \E i, j \in 1..Len(us) : i # j /\ us[i].ID = us[j].ID

\* The merge of the claim: the original users without the ID of a new
\* user, then the new users.
MergedByID(orig, new) ==
    SelectSeq(orig, LAMBDA u : \A i \in 1..Len(new) : new[i].ID # u.ID) \o new

\* C27: WriteUsers to an existing users file leaves in it the original
\* users that do not have the ID of a new user, in their order, followed by
\* the new users in their order; no user ID is in the file twice.
C27_MergeReplacesByID ==
    WroteToExistingFile =>
        /\ usersXml.state = "ok"
        /\ usersXml.users = MergedByID(LastStep.args.file.users, glUsers)
        /\ ~IDTwice(usersXml.users)

\* A user of the file was looked up again after their username changed: the
\* file has the ID twice.
C27_RenamedUserIsTwice ==
    /\ WroteToExistingFile
    /\ LastStep.args.file.users = <<XmlUser(1, "ann")>>
    /\ glUsers = <<XmlUser(1, "anna")>>
    /\ usersXml.users = <<XmlUser(1, "ann"), XmlUser(1, "anna")>>

\* ----------------------------------------------------- claims: users option
\* The parts of the values the command line gives with --users, trimmed,
\* in the order given.
RECURSIVE CliUsers(_)
CliUsers(a) ==
    IF a = <<>> THEN <<>>
    ELSE IF Head(a).name = "users"
    THEN [i \in 1..Len(Head(a).val) |-> TrimSpace(Head(a).val[i])] \o CliUsers(Tail(a))
    ELSE CliUsers(Tail(a))
FileUsers ==
    IF "users>user" \in DOMAIN optFiles["options.xml"]
    THEN optFiles["options.xml"]["users>user"] ELSE <<>>
UsersGivenTwice ==
    /\ PastParse
    /\ RanCommand = "users list"
    /\ FileUsers # <<>>
    /\ CliUsers(RunArgs) # <<>>

\* C28: when options.xml lists users and --users is given on the command
\* line too, the users option holds the values of the command line only,
\* none of the file and none twice.
C28_CommandLineUsersReplaceFileUsers ==
    UsersGivenTwice =>
        /\ \A i \in 1..Len(allOpts["Users"]) :
              \E j \in 1..Len(CliUsers(RunArgs)) :
                  allOpts["Users"][i] = CliUsers(RunArgs)[j]
        /\ \A i, j \in 1..Len(allOpts["Users"]) :
              i # j => allOpts["Users"][i] # allOpts["Users"][j]

\* What the code has: the values of the command line are appended to
\* those of the file.
C28_CommandLineUsersFollowFileUsers ==
    (PastParse /\ RanCommand = "users list") =>
        allOpts["Users"] = FileUsers \o CliUsers(RunArgs)

\* The file lists ann and bob, the command line gives bob: bob is looked
\* up twice, ann once.
C28_FileUsersLookedUpToo ==
    /\ UsersGivenTwice
    /\ RunArgs = <<Flag("users", <<"bob">>)>>
    /\ allOpts["Users"] = <<"ann", "bob", "bob">>
    /\ Len(SelectSeq(steps, LAMBDA st : st.op = "FindUsers")) = 3

\* --------------------------------------------------- claims: approvers file
\* The update command got past its validation and could not read the file
\* of the approvers.
ApproversUnreadable ==
    /\ steps # <<>>
    /\ LastStep.op = "ReadUsers"
    /\ RanCommand = "projects approval-rules update"

\* C29: when the file of the approvers cannot be opened or parsed, the
\* update command returns a non-nil error and makes no listing or update
\* call.
C29_UnreadableApproversIsError ==
    ApproversUnreadable =>
        /\ rpc = "returned"
        /\ rerr # "nil"
        /\ \A i \in 1..Len(steps) : steps[i].op \notin ServiceCalls

\* C29 without the error: no listing or update call is made.
C29_UnreadableApproversMakesNoCall ==
    ApproversUnreadable =>
        /\ rpc = "returned"
        /\ \A i \in 1..Len(steps) : steps[i].op \notin ServiceCalls

\* The file named is not there, and Run returned nil.
C29_MissingFileReturnsNil ==
    /\ ApproversUnreadable
    /\ usersXml.state = "missing"
    /\ allOpts["ApproversFileName"] = "users.xml"
    /\ rerr = "nil"

\* ------------------------------------------------------ claims: pagination
\* The requests for a page, and the calls whose project visitor walks the
\* approval rules of the project, once for every project visited.
PageOps == FetchOps \cup {"ListGroups"}
RuleWalkers == {"ApprovalRulesList", "ApprovalRulesUpdate"}

\* The requests at trace indexes i < j are requests of one run of one loop.
SameLoop(i, j) ==
    /\ trace[i].op = trace[j].op
    /\ (call.fn \in RuleWalkers /\ trace[j].op = "GetProjectApprovalRules") =>
           \A k \in i..j : trace[k].op # "visit"
EarlierOfLoop(j) == {i \in 1..(j - 1) : SameLoop(i, j)}
PrevOfLoop(j) == CHOOSE i \in EarlierOfLoop(j) : \A k \in EarlierOfLoop(j) : k <= i

\* The first request of a loop asks for page 1, every other one for the
\* NextPage of the response before it, which was not 0 and not an error.
RequestsFollowNextPage ==
    \A j \in 1..Len(trace) :
        trace[j].op \in PageOps =>
            IF EarlierOfLoop(j) = {} THEN trace[j].arg = 1
            ELSE /\ trace[PrevOfLoop(j)].res > 0
                 /\ trace[j].arg = trace[PrevOfLoop(j)].res

\* A call is in progress.
Running == pc \notin {"idle", "off", "done"}

\* C30: every paginated loop asks first for page 1 and then for exactly the
\* NextPage of the previous response, asks for no page after a response
\* with NextPage 0, and the call it is part of comes to its end.
C30_PaginationTerminates ==
    /\ []RequestsFollowNextPage
    /\ Running ~> (pc = "done")

\* A listing of projects went through two pages and ended.
C30_Witness ==
    /\ call.fn = "ForEachProjectInGroup"
    /\ pc = "done"
    /\ ret = "nil"
    /\ ArgsOf(trace, {"ListGroupProjects"}) = <<1, 2>>
    /\ ArgsOf(trace, {"ListGroups"}) = <<1, 2>>
    /\ trace[Len(trace)].op = "visit"
====
